---------------------------- MODULE Spec2Model ----------------------------
(***************************************************************************)
(* Model of the GRBL host client (jorgerobles/cnc_calibrator).             *)
(*                                                                         *)
(*   Spec     the Communicator (grbl/communicator.py): the reader thread,  *)
(*            one caller thread sending commands, one thread calling       *)
(*            start()/stop(), the device answering on the serial line,     *)
(*            and the passing of request deadlines.                        *)
(*   SpecCtl  the Controller (grbl/controller.py) and the Smart-Timeout    *)
(*            wrapper (grbl/smart_timeout_controller.py): connect() stage  *)
(*            by stage, disconnect(), the connection-gated operations and  *)
(*            the movement operations; every exchange with the             *)
(*            Communicator is one step whose outcome is drawn from the     *)
(*            outcomes the Communicator can produce.                       *)
(***************************************************************************)
EXTENDS Integers, Sequences, FiniteSets, TLC

\* ------------------------------------------------------------------ bounds
\* Number of requests the caller thread registers in one run.
MaxCmds == 2
\* Ordinary (non-terminal) lines the device sends before a terminal line.
MaxData == 1

Ids == 1..MaxCmds

VARIABLES
    \* --- GRBLCommunicator / SerialConnection
    running,            \* _running
    serial_open,        \* SerialConnection.is_open()
    pending_commands,   \* keys of _pending_commands (insertion order = id order)
    command_counter,    \* _command_counter
    future,             \* id -> the Future of the request: [st, lines]
    expired,            \* ids whose deadline (cmd_info['timeout']) lies in the past
    rx,                 \* lines waiting in the serial input buffer
    responses_buffer,   \* the reader loop's local responses_buffer
    reader_pc,          \* reader thread: "dead" | "loop" | "scan"
    sweep_size,         \* _check_timeouts: dict size when its iteration began
    sweep_pos,          \* _check_timeouts: last key the iteration visited
    timed_out,          \* _check_timeouts: the local list timed_out
    \* --- the caller thread inside send_command_async / send_command_sync
    snd_pc,             \* "idle" | "write" | "wait"
    snd_id,             \* id of the request the call registered
    snd_sync,           \* TRUE: send_command_sync, FALSE: send_command_async
    snd_res,            \* what the last call gave its caller
    \* --- the thread inside stop()
    stop_pc,            \* "idle" | "iter" | "clear" | "join"
    stop_size,          \* dict size when stop()'s iteration began
    stop_pos,           \* last key stop()'s iteration visited
    \* --- the device
    devq,               \* ids of the commands written and not yet answered
    \* --- history (not program state)
    answer,             \* id -> the lines the device sent in answer to it
    completed,          \* ids in the order the reader completed them with lines
    sync_timed_out,     \* ids for which send_command_sync reported a timeout
    pre_stop,           \* the requests pending when the last stop() began
    stop_called,        \* stop() has been called at least once
    stop_raised,        \* the last stop() ended by raising
    \* --- GRBLController
    is_connected_flag,  \* _is_connected
    current_position,   \* current_position
    current_status,     \* current_status
    work_offsets,       \* _work_offsets
    cn_pc,              \* the stage a connect() call has reached
    status_data,        \* connect()'s local status_data
    \* --- history of the Controller's calls (not program state)
    last_op,            \* the last operation: its name, result and effects
    active,             \* a connect() succeeded and no cleanup ran since
    outstanding,        \* CONNECTED was emitted and no DISCONNECTED since
    recovery,           \* what the running/last connect() did to recover
    decoded,            \* the status report the last step decoded, if any
    stages,             \* the stages of the connect() call under way or last made
    \* --- GRBLCommunicator callbacks and the threads inside query_status
    status_callback,    \* _status_callback: the Controller's or a call's handler
    async_callback,     \* _async_callback
    qs_pc,              \* caller -> "idle" | "write" | "wait"
    qs_old,             \* caller -> its local old_callback
    qs_got,             \* caller -> its status_event is set
    tx,                 \* the bytes last written by a realtime call
    rt_parity,          \* parity of the send_realtime_command calls made
    \* --- TimeoutCalculator
    config,             \* config (GRBLMachineConfig)
    base_safety_factor, \* safety_provider.base_safety_factor, in millionths
    timeout_history,    \* timeout_history
    recorded,           \* number of record_execution_time calls made
    last_timeout,       \* the last calculate_timeout call and its result
    last_dump,          \* the settings dump update_machine_config just took
    \* --- SmartTimeoutController
    config_initialized, \* _config_initialized
    last_call,          \* the wrapper's last call: its arguments and effects
    \* --- CommandAnalyzer / MovementCalculator (pure; history of one call)
    last_parse,         \* the last analyze_command call and its target
    last_distance,      \* the last rotary distance computed, and by whom
    \* --- the reader's callbacks (history, not program state)
    unsolicited,        \* number of status/async lines the device has sent
    read_log,           \* the status/async lines the reader has read, in order
    segment,            \* every line read since the last terminal line
    completed_segment,  \* id -> segment (terminal line included) that completed it
    status_delivered,   \* ids of the lines given to _status_callback, in order
    async_delivered,    \* ids of the lines given to _async_callback, in order
    orphans,            \* ids whose terminal line arrived on an empty table, not read yet
    \* --- several caller threads inside send_command_async; reader threads
    reg_pc,             \* caller -> "idle" | "store" | "return" | "insert"
    reg_seen,           \* caller -> the _command_counter its += loaded
    reg_id,             \* caller -> the id _get_next_command_id returned to it
    issued,             \* the ids returned, in the order they were returned
    extra_readers       \* reader threads alive besides the one reader_pc follows

commVars == <<running, serial_open, pending_commands, command_counter, future,
              expired, rx, responses_buffer, reader_pc, sweep_size, sweep_pos,
              timed_out, snd_pc, snd_id, snd_sync, snd_res, stop_pc, stop_size,
              stop_pos, devq, answer, completed, sync_timed_out, pre_stop,
              stop_called, stop_raised>>

ctlVars == <<is_connected_flag, current_position, current_status, work_offsets,
             cn_pc, status_data, last_op, active, outstanding, recovery,
             decoded, stages>>

queryVars == <<status_callback, async_callback, qs_pc, qs_old, qs_got, tx,
               rt_parity>>

timeoutVars == <<config, base_safety_factor, timeout_history, recorded,
                 last_timeout, last_dump>>

smartVars == <<config_initialized, last_call>>

analyzerVars == <<last_parse, last_distance>>

readerVars == <<unsolicited, read_log, segment, completed_segment,
                status_delivered, async_delivered, orphans>>

threadVars == <<reg_pc, reg_seen, reg_id, issued, extra_readers>>

vars == <<commVars, ctlVars, queryVars, timeoutVars, smartVars, analyzerVars,
          readerVars, threadVars>>

\* ------------------------------------------------------------- the parser
\* A line is [k, id]: k is the class the parser's predicates give the text,
\* id the request the device sent it for (history only; the text has no id).
Line(k, id) == [k |-> k, id |-> id]

is_ok_response(line) == line.k = "ok"

is_error_response(line) == line.k = "error"

\* line.startswith('<') and line.endswith('>') (communicator.py line 155):
\* "status" is a bracketed line with an MPos or WPos field, "status_bare" a
\* bracketed line with neither.
is_status_line(line) == line.k \in {"status", "status_bare"}

\* parse_status_response gives a report (parser.py line 56): the line has a
\* position field.
has_status_data(line) == line.k = "status"

\* (mutant of is_async_message: message lines are not recognised)
is_async_message_alarm_only(line) == line.k = "alarm"

\* GRBLResponseParser.is_async_message (parser.py lines 86-88).
is_async_message(line) == line.k \in {"alarm", "msg"}

\* ------------------------------------------------------------ the futures
NoFuture == [st |-> "unreg", lines |-> <<>>]

NewFuture == [st |-> "none", lines |-> <<>>]

done(f) == f.st \notin {"unreg", "none"}

\* Future.set_result / set_exception on a future that is not done.
set_result(f, lines) == [st |-> "result", lines |-> lines]

set_exception(f, cause) == [st |-> cause, lines |-> <<>>]

Min(S) == CHOOSE x \in S : \A y \in S : x <= y

Max(S) == CHOOSE x \in S : \A y \in S : x >= y

InitComm ==
    /\ running = FALSE
    /\ pending_commands = {}
    /\ command_counter = 0
    /\ future = [i \in Ids |-> NoFuture]
    /\ expired = {}
    /\ rx = <<>>
    /\ responses_buffer = <<>>
    /\ reader_pc = "dead"
    /\ sweep_size = 0
    /\ sweep_pos = 0
    /\ timed_out = {}
    /\ snd_pc = "idle"
    /\ snd_id = 0
    /\ snd_sync = FALSE
    /\ snd_res = "none"
    /\ stop_pc = "idle"
    /\ stop_size = 0
    /\ stop_pos = 0
    /\ devq = <<>>
    /\ answer = [i \in Ids |-> <<>>]
    /\ completed = <<>>
    /\ sync_timed_out = {}
    /\ pre_stop = {}
    /\ stop_called = FALSE
    /\ stop_raised = FALSE

\* ------------------------------------------------- GRBLCommunicator.start
\* start(): no-op while running, else sets _running and spawns the reader,
\* whose local responses_buffer starts empty.  The model holds one reader
\* thread: start() is taken when the previous reader has ended.
start ==
    /\ stop_pc = "idle"
    /\ ~running
    /\ reader_pc = "dead"
    /\ running' = TRUE
    /\ reader_pc' = "loop"
    /\ responses_buffer' = <<>>
    /\ UNCHANGED <<serial_open, pending_commands, command_counter, future,
                   expired, rx, sweep_size, sweep_pos, timed_out, snd_pc,
                   snd_id, snd_sync, snd_res, stop_pc, stop_size, stop_pos,
                   devq, answer, completed, sync_timed_out, pre_stop,
                   stop_called, stop_raised>>
    /\ UNCHANGED <<ctlVars, queryVars, timeoutVars, smartVars, analyzerVars,
                   readerVars, threadVars>>

\* ------------------------------------- GRBLCommunicator.send_command_async
\* Registration: the is_open check, _get_next_command_id and the table
\* insert (lines 67-78).  sync tells which entry point the caller used.
send_register(sync) ==
    /\ snd_pc = "idle"
    /\ command_counter < MaxCmds
    /\ snd_sync' = sync
    /\ IF ~serial_open
         THEN /\ snd_res' = "ConnectionError"
              /\ UNCHANGED <<command_counter, pending_commands, future,
                             snd_pc, snd_id>>
         ELSE /\ command_counter' = command_counter + 1
              /\ pending_commands' = pending_commands \cup {command_counter + 1}
              /\ future' = [future EXCEPT ![command_counter + 1] = NewFuture]
              /\ snd_id' = command_counter + 1
              /\ snd_pc' = "write"
              /\ snd_res' = "none"
    /\ UNCHANGED <<running, serial_open, expired, rx, responses_buffer,
                   reader_pc, sweep_size, sweep_pos, timed_out, stop_pc,
                   stop_size, stop_pos, devq, answer, completed,
                   sync_timed_out, pre_stop, stop_called, stop_raised>>
    /\ UNCHANGED <<ctlVars, queryVars, timeoutVars, smartVars, analyzerVars,
                   readerVars, threadVars>>

\* The write (lines 80-88).  ok: the transport accepted the bytes, and the
\* device will answer them; otherwise serial.write raised: the entry is
\* deleted if still there and the future is failed with the error.
send_write(ok) ==
    /\ snd_pc = "write"
    /\ IF ok
         THEN /\ devq' = Append(devq, snd_id)
              /\ UNCHANGED <<pending_commands, future>>
              /\ IF snd_sync
                   THEN snd_pc' = "wait" /\ snd_res' = "none"
                   ELSE snd_pc' = "idle" /\ snd_res' = "future"
         ELSE /\ pending_commands' = pending_commands \ {snd_id}
              /\ UNCHANGED devq
              /\ IF done(future[snd_id])
                   \* set_exception on a fulfilled future raises
                   \* InvalidStateError out of the call.
                   THEN /\ UNCHANGED future
                        /\ snd_pc' = "idle"
                        /\ snd_res' = "InvalidStateError"
                   ELSE /\ future' = [future EXCEPT ![snd_id] =
                                          set_exception(@, "transport")]
                        /\ IF snd_sync
                             THEN snd_pc' = "wait" /\ snd_res' = "none"
                             ELSE snd_pc' = "idle" /\ snd_res' = "future"
    /\ UNCHANGED <<running, serial_open, command_counter, expired, rx,
                   responses_buffer, reader_pc, sweep_size, sweep_pos,
                   timed_out, snd_id, snd_sync, stop_pc, stop_size, stop_pos,
                   answer, completed, sync_timed_out, pre_stop, stop_called,
                   stop_raised>>
    /\ UNCHANGED <<ctlVars, queryVars, timeoutVars, smartVars, analyzerVars,
                   readerVars, threadVars>>

\* -------------------------------------- GRBLCommunicator.send_command_sync
\* future.result(timeout) returns: the future was fulfilled (lines 58-60).
send_sync_return ==
    /\ snd_pc = "wait"
    /\ done(future[snd_id])
    /\ snd_pc' = "idle"
    /\ snd_res' = future[snd_id].st
    /\ UNCHANGED <<running, serial_open, pending_commands, command_counter,
                   future, expired, rx, responses_buffer, reader_pc,
                   sweep_size, sweep_pos, timed_out, snd_id, snd_sync,
                   stop_pc, stop_size, stop_pos, devq, answer, completed,
                   sync_timed_out, pre_stop, stop_called, stop_raised>>
    /\ UNCHANGED <<ctlVars, queryVars, timeoutVars, smartVars, analyzerVars,
                   readerVars, threadVars>>

\* future.result(timeout) raises TimeoutError: the wait, which began after
\* the deadline was computed, has run out and the future is not fulfilled.
\* The handler re-raises and touches nothing (lines 61-63).
send_sync_timeout ==
    /\ snd_pc = "wait"
    /\ ~done(future[snd_id])
    /\ snd_id \in expired
    /\ snd_pc' = "idle"
    /\ snd_res' = "timeout"
    /\ sync_timed_out' = sync_timed_out \cup {snd_id}
    /\ UNCHANGED <<running, serial_open, pending_commands, command_counter,
                   future, expired, rx, responses_buffer, reader_pc,
                   sweep_size, sweep_pos, timed_out, snd_id, snd_sync,
                   stop_pc, stop_size, stop_pos, devq, answer, completed,
                   pre_stop, stop_called, stop_raised>>
    /\ UNCHANGED <<ctlVars, queryVars, timeoutVars, smartVars, analyzerVars,
                   readerVars, threadVars>>

\* Time passes: the deadline of an unfulfilled request goes by.
deadline_passes(id) ==
    /\ future[id].st = "none"
    /\ id \notin expired
    /\ expired' = expired \cup {id}
    /\ UNCHANGED <<running, serial_open, pending_commands, command_counter,
                   future, rx, responses_buffer, reader_pc, sweep_size,
                   sweep_pos, timed_out, snd_pc, snd_id, snd_sync, snd_res,
                   stop_pc, stop_size, stop_pos, devq, answer, completed,
                   sync_timed_out, pre_stop, stop_called, stop_raised>>
    /\ UNCHANGED <<ctlVars, queryVars, timeoutVars, smartVars, analyzerVars,
                   readerVars, threadVars>>

\* ------------------------------------------------------------- the device
\* The device answers the commands in the order they were written: ordinary
\* lines, then one terminal line.
device_data ==
    /\ devq # <<>>
    /\ Len(answer[Head(devq)]) < MaxData
    /\ rx' = Append(rx, Line("data", Head(devq)))
    /\ answer' = [answer EXCEPT ![Head(devq)] = Append(@, Line("data", Head(devq)))]
    /\ UNCHANGED <<running, serial_open, pending_commands, command_counter,
                   future, expired, responses_buffer, reader_pc, sweep_size,
                   sweep_pos, timed_out, snd_pc, snd_id, snd_sync, snd_res,
                   stop_pc, stop_size, stop_pos, devq, completed,
                   sync_timed_out, pre_stop, stop_called, stop_raised>>
    /\ UNCHANGED <<ctlVars, queryVars, timeoutVars, smartVars, analyzerVars,
                   readerVars, threadVars>>

device_terminal(k) ==
    /\ devq # <<>>
    /\ rx' = Append(rx, Line(k, Head(devq)))
    /\ answer' = [answer EXCEPT ![Head(devq)] = Append(@, Line(k, Head(devq)))]
    /\ devq' = Tail(devq)
    /\ orphans' = IF pending_commands = {} THEN orphans \cup {Head(devq)}
                  ELSE orphans
    /\ UNCHANGED <<running, serial_open, pending_commands, command_counter,
                   future, expired, responses_buffer, reader_pc, sweep_size,
                   sweep_pos, timed_out, snd_pc, snd_id, snd_sync, snd_res,
                   stop_pc, stop_size, stop_pos, completed, sync_timed_out,
                   pre_stop, stop_called, stop_raised>>
    /\ UNCHANGED <<unsolicited, read_log, segment, completed_segment,
                   status_delivered, async_delivered>>
    /\ UNCHANGED <<ctlVars, queryVars, timeoutVars, smartVars, analyzerVars,
                   threadVars>>

\* Status and async lines the device sends in one run.
MaxUnsolicited == 2

UnsolicitedKinds == {"status", "status_bare", "alarm", "msg"}

\* The device sends a status report or an async message, whatever it is
\* doing for the commands.
device_unsolicited(k) ==
    /\ unsolicited < MaxUnsolicited
    /\ unsolicited' = unsolicited + 1
    /\ rx' = Append(rx, Line(k, unsolicited + 1))
    /\ UNCHANGED <<running, serial_open, pending_commands, command_counter,
                   future, expired, responses_buffer, reader_pc, sweep_size,
                   sweep_pos, timed_out, snd_pc, snd_id, snd_sync, snd_res,
                   stop_pc, stop_size, stop_pos, devq, answer, completed,
                   sync_timed_out, pre_stop, stop_called, stop_raised>>
    /\ UNCHANGED <<read_log, segment, completed_segment, status_delivered,
                   async_delivered, orphans>>
    /\ UNCHANGED <<ctlVars, queryVars, timeoutVars, smartVars, analyzerVars,
                   threadVars>>

\* Lines of the stream that may wait unread in the input buffer.
StreamAhead == 2

\* The device streams status reports without end (it is polled, or reports
\* on its own): in_waiting() stays above 0.
device_stream ==
    /\ Len(rx) < StreamAhead
    /\ rx' = Append(rx, Line("status", 0))
    /\ UNCHANGED <<running, serial_open, pending_commands, command_counter,
                   future, expired, responses_buffer, reader_pc, sweep_size,
                   sweep_pos, timed_out, snd_pc, snd_id, snd_sync, snd_res,
                   stop_pc, stop_size, stop_pos, devq, answer, completed,
                   sync_timed_out, pre_stop, stop_called, stop_raised>>
    /\ UNCHANGED <<ctlVars, queryVars, timeoutVars, smartVars, analyzerVars,
                   readerVars, threadVars>>

\* ------------------------------- GRBLCommunicator._handle_command_completion
\* (mutant of oldest: completes the newest request)
newest(P) == Max(P)

\* The key of the request a terminal line completes: the oldest one.
oldest(P) == Min(P)

\* The table after _handle_command_completion.
completion_pending(P) == IF P = {} THEN P ELSE P \ {oldest(P)}

\* The futures after _handle_command_completion(responses).
completion_future(P, F, responses) ==
    IF P = {} \/ done(F[oldest(P)]) THEN F
    ELSE [F EXCEPT ![oldest(P)] = set_result(@, responses)]

\* ------------------------------------------- GRBLCommunicator._reader_loop
\* The history keeps the numbered lines; the lines of an endless stream
\* carry the number 0 and leave no trace in it.
Log(log, line) == IF line.id = 0 THEN log ELSE Append(log, line)

LogId(log, line) == IF line.id = 0 THEN log ELSE Append(log, line.id)

\* One iteration with data waiting (lines 142-170): read a line; a terminal
\* line completes the oldest request with the buffer and the line and clears
\* the buffer; a status line is decoded and its report given to the status
\* callback; an async line is given to the async callback; any other line is
\* buffered.  Both callbacks are installed (controller.py lines 36-37).
reader_line ==
    /\ reader_pc = "loop"
    /\ running /\ serial_open
    /\ rx # <<>>
    /\ rx' = Tail(rx)
    /\ LET line == Head(rx)
           responses == Append(responses_buffer, line)
       IN IF is_ok_response(line) \/ is_error_response(line)
          THEN /\ pending_commands' = completion_pending(pending_commands)
               /\ future' = completion_future(pending_commands, future, responses)
               /\ completed' = IF future' # future
                                THEN Append(completed, oldest(pending_commands))
                                ELSE completed
               /\ responses_buffer' = <<>>
               /\ segment' = <<>>
               /\ completed_segment' =
                    IF future' # future
                    THEN [completed_segment EXCEPT ![oldest(pending_commands)] =
                             Append(segment, line)]
                    ELSE completed_segment
               /\ orphans' = orphans \ {line.id}
               /\ UNCHANGED <<read_log, status_delivered, async_delivered>>
          ELSE IF is_status_line(line)
          THEN /\ status_delivered' = IF has_status_data(line)
                                       THEN LogId(status_delivered, line)
                                       ELSE status_delivered
               /\ read_log' = Log(read_log, line)
               /\ segment' = Log(segment, line)
               /\ UNCHANGED <<pending_commands, future, completed,
                              responses_buffer, completed_segment,
                              async_delivered,
                              orphans>>
          ELSE IF is_async_message(line)
          THEN /\ async_delivered' = LogId(async_delivered, line)
               /\ read_log' = Log(read_log, line)
               /\ segment' = Log(segment, line)
               /\ UNCHANGED <<pending_commands, future, completed,
                              responses_buffer, completed_segment,
                              status_delivered,
                              orphans>>
          ELSE /\ responses_buffer' = responses
               /\ segment' = Log(segment, line)
               /\ UNCHANGED <<pending_commands, future, completed, read_log,
                              completed_segment, status_delivered,
                              async_delivered,
                              orphans>>
    /\ UNCHANGED <<running, serial_open, command_counter, expired, reader_pc,
                   sweep_size, sweep_pos, timed_out, snd_pc, snd_id, snd_sync,
                   snd_res, stop_pc, stop_size, stop_pos, devq, answer,
                   sync_timed_out, pre_stop, stop_called, stop_raised>>
    /\ UNCHANGED unsolicited
    /\ UNCHANGED <<ctlVars, queryVars, timeoutVars, smartVars, analyzerVars,
                   threadVars>>

\* One iteration with no data waiting whose periodic check calls
\* _check_timeouts on a non-empty table (lines 171-179, 188-192): the
\* iteration over the table begins.
reader_sweep_begin ==
    /\ reader_pc = "loop"
    /\ running /\ serial_open
    /\ rx = <<>>
    /\ pending_commands # {}
    /\ reader_pc' = "scan"
    /\ sweep_size' = Cardinality(pending_commands)
    /\ sweep_pos' = 0
    /\ timed_out' = {}
    /\ UNCHANGED <<running, serial_open, pending_commands, command_counter,
                   future, expired, rx, responses_buffer, snd_pc, snd_id,
                   snd_sync, snd_res, stop_pc, stop_size, stop_pos, devq,
                   answer, completed, sync_timed_out, pre_stop, stop_called,
                   stop_raised>>
    /\ UNCHANGED <<ctlVars, queryVars, timeoutVars, smartVars, analyzerVars,
                   readerVars, threadVars>>

\* The entries a dict iteration that has visited up to key pos still has to
\* visit (a dict keeps insertion order, which is id order).
to_visit(P, pos) == {i \in P : i > pos}

\* _check_timeouts: one step of "for cmd_id, cmd_info in items()" (lines
\* 194-196), and after the last entry the pops of lines 198-203.  A dict
\* whose size changed since the iteration began raises RuntimeError, which
\* the reader loop catches and then leaves the loop (lines 181-184).
reader_sweep_next ==
    /\ reader_pc = "scan"
    /\ IF Cardinality(pending_commands) # sweep_size
         THEN /\ reader_pc' = "dead"
              /\ UNCHANGED <<sweep_pos, timed_out, pending_commands, future>>
         ELSE IF to_visit(pending_commands, sweep_pos) # {}
         THEN LET id == Min(to_visit(pending_commands, sweep_pos))
              IN /\ sweep_pos' = id
                 /\ timed_out' = IF id \in expired /\ ~done(future[id])
                                  THEN timed_out \cup {id} ELSE timed_out
                 /\ UNCHANGED <<reader_pc, pending_commands, future>>
         ELSE /\ pending_commands' = pending_commands \ timed_out
              /\ future' = [i \in Ids |->
                               IF i \in timed_out \cap pending_commands
                                  /\ ~done(future[i])
                               THEN set_exception(future[i], "timeout")
                               ELSE future[i]]
              /\ reader_pc' = "loop"
              /\ UNCHANGED <<sweep_pos, timed_out>>
    /\ UNCHANGED <<running, serial_open, command_counter, expired, rx,
                   responses_buffer, sweep_size, snd_pc, snd_id, snd_sync,
                   snd_res, stop_pc, stop_size, stop_pos, devq, answer,
                   completed, sync_timed_out, pre_stop, stop_called,
                   stop_raised>>
    /\ UNCHANGED <<ctlVars, queryVars, timeoutVars, smartVars, analyzerVars,
                   readerVars, threadVars>>

\* The loop condition "while self._running and self._serial.is_open()" fails
\* (line 139): the thread ends.
reader_exit ==
    /\ reader_pc = "loop"
    /\ ~(running /\ serial_open)
    /\ reader_pc' = "dead"
    /\ UNCHANGED <<running, serial_open, pending_commands, command_counter,
                   future, expired, rx, responses_buffer, sweep_size,
                   sweep_pos, timed_out, snd_pc, snd_id, snd_sync, snd_res,
                   stop_pc, stop_size, stop_pos, devq, answer, completed,
                   sync_timed_out, pre_stop, stop_called, stop_raised>>
    /\ UNCHANGED <<ctlVars, queryVars, timeoutVars, smartVars, analyzerVars,
                   readerVars, threadVars>>

\* -------------------------------------------------- GRBLCommunicator.stop
\* stop() clears _running and begins "for cmd_info in values()" (lines 44-47).
stop_begin ==
    /\ stop_pc = "idle"
    /\ running' = FALSE
    /\ stop_pc' = "iter"
    /\ stop_size' = Cardinality(pending_commands)
    /\ stop_pos' = 0
    /\ pre_stop' = {i \in pending_commands : ~done(future[i])}
    /\ stop_called' = TRUE
    /\ stop_raised' = FALSE
    /\ UNCHANGED <<serial_open, pending_commands, command_counter, future,
                   expired, rx, responses_buffer, reader_pc, sweep_size,
                   sweep_pos, timed_out, snd_pc, snd_id, snd_sync, snd_res,
                   devq, answer, completed, sync_timed_out>>
    /\ UNCHANGED <<ctlVars, queryVars, timeoutVars, smartVars, analyzerVars,
                   readerVars, threadVars>>

\* One step of the iteration (lines 47-49): the next entry's future, if not
\* done, is failed with ConnectionError("Communicator stopped").  A dict
\* whose size changed since the iteration began raises RuntimeError out of
\* stop().
stop_next ==
    /\ stop_pc = "iter"
    /\ IF Cardinality(pending_commands) # stop_size
         THEN /\ stop_pc' = "idle"
              /\ stop_raised' = TRUE
              /\ UNCHANGED <<stop_pos, future>>
         ELSE IF to_visit(pending_commands, stop_pos) # {}
         THEN LET id == Min(to_visit(pending_commands, stop_pos))
              IN /\ stop_pos' = id
                 /\ future' = IF done(future[id]) THEN future
                               ELSE [future EXCEPT ![id] =
                                        set_exception(@, "stopped")]
                 /\ UNCHANGED <<stop_pc, stop_raised>>
         ELSE /\ stop_pc' = "clear"
              /\ UNCHANGED <<stop_pos, future, stop_raised>>
    /\ UNCHANGED <<running, serial_open, pending_commands, command_counter,
                   expired, rx, responses_buffer, reader_pc, sweep_size,
                   sweep_pos, timed_out, snd_pc, snd_id, snd_sync, snd_res,
                   stop_size, devq, answer, completed, sync_timed_out,
                   pre_stop, stop_called>>
    /\ UNCHANGED <<ctlVars, queryVars, timeoutVars, smartVars, analyzerVars,
                   readerVars, threadVars>>

\* self._pending_commands.clear() (line 50).
stop_clear ==
    /\ stop_pc = "clear"
    /\ pending_commands' = {}
    /\ stop_pc' = "join"
    /\ UNCHANGED <<running, serial_open, command_counter, future, expired, rx,
                   responses_buffer, reader_pc, sweep_size, sweep_pos,
                   timed_out, snd_pc, snd_id, snd_sync, snd_res, stop_size,
                   stop_pos, devq, answer, completed, sync_timed_out,
                   pre_stop, stop_called, stop_raised>>
    /\ UNCHANGED <<ctlVars, queryVars, timeoutVars, smartVars, analyzerVars,
                   readerVars, threadVars>>

\* self._reader_thread.join(timeout=1.0) returns (lines 52-54): the reader,
\* which tests _running at every iteration, has ended.
stop_join ==
    /\ stop_pc = "join"
    /\ reader_pc = "dead"
    /\ stop_pc' = "idle"
    /\ UNCHANGED <<running, serial_open, pending_commands, command_counter,
                   future, expired, rx, responses_buffer, reader_pc,
                   sweep_size, sweep_pos, timed_out, snd_pc, snd_id, snd_sync,
                   snd_res, stop_size, stop_pos, devq, answer, completed,
                   sync_timed_out, pre_stop, stop_called, stop_raised>>
    /\ UNCHANGED <<ctlVars, queryVars, timeoutVars, smartVars, analyzerVars,
                   readerVars, threadVars>>

\* ------------------------------------ realtime commands and query_status
MaxCallers == 2

\* The threads that call query_status.
Callers == 1..MaxCallers

\* A callback slot holds the Controller's handler (0) or the handler of the
\* query_status call of caller t (t).
ControllerCallback == 0

\* The callbacks GRBLController.__init__ installs (controller.py lines
\* 36-37); no query_status call is under way.
InitQuery ==
    /\ status_callback = ControllerCallback
    /\ async_callback = ControllerCallback
    /\ qs_pc = [t \in Callers |-> "idle"]
    /\ qs_old = [t \in Callers |-> ControllerCallback]
    /\ qs_got = [t \in Callers |-> FALSE]
    /\ tx = "none"
    /\ rt_parity = 0

\* (mutant of realtime_pending: the realtime command is registered like a
\* line command)
realtime_pending_registers(P) == P \cup {command_counter + 1}

\* The pending table after send_realtime_command: it is not touched.
realtime_pending(P) == P

\* GRBLCommunicator.send_realtime_command (lines 90-94): ConnectionError
\* when the transport is not open, else one write (which may raise).
comm_send_realtime_command(write_ok) ==
    /\ rt_parity' = 1 - rt_parity
    /\ tx' = IF serial_open /\ write_ok THEN "realtime" ELSE tx
    /\ pending_commands' = realtime_pending(pending_commands)
    /\ UNCHANGED <<running, serial_open, command_counter, future, expired, rx,
                   responses_buffer, reader_pc, sweep_size, sweep_pos,
                   timed_out, snd_pc, snd_id, snd_sync, snd_res, stop_pc,
                   stop_size, stop_pos, devq, answer, completed,
                   sync_timed_out, pre_stop, stop_called, stop_raised>>
    /\ UNCHANGED <<status_callback, async_callback, qs_pc, qs_old, qs_got>>
    /\ UNCHANGED <<ctlVars, timeoutVars, smartVars, analyzerVars,
                   readerVars, threadVars>>

\* query_status up to the override (lines 98-112): ConnectionError when the
\* transport is not open, else the caller's handler replaces the installed
\* callback, which is kept in old_callback.
query_begin(t) ==
    /\ qs_pc[t] = "idle"
    /\ IF ~serial_open
         THEN UNCHANGED <<status_callback, qs_pc, qs_old, qs_got>>
         ELSE /\ qs_old' = [qs_old EXCEPT ![t] = status_callback]
              /\ status_callback' = t
              /\ qs_got' = [qs_got EXCEPT ![t] = FALSE]
              /\ qs_pc' = [qs_pc EXCEPT ![t] = "write"]
    /\ UNCHANGED <<async_callback, tx, rt_parity>>
    /\ UNCHANGED <<commVars, ctlVars, timeoutVars, smartVars, analyzerVars,
                   readerVars, threadVars>>

\* query_status writes "?" (line 116); when the write raises, the finally
\* clause restores old_callback (lines 122-124).
query_write(t, write_ok) ==
    /\ qs_pc[t] = "write"
    /\ IF write_ok /\ serial_open
         THEN /\ qs_pc' = [qs_pc EXCEPT ![t] = "wait"]
              /\ tx' = "?"
              /\ UNCHANGED <<status_callback, qs_old, qs_got>>
         ELSE /\ qs_pc' = [qs_pc EXCEPT ![t] = "idle"]
              /\ status_callback' = qs_old[t]
              /\ qs_old' = [qs_old EXCEPT ![t] = ControllerCallback]
              /\ qs_got' = [qs_got EXCEPT ![t] = FALSE]
              /\ UNCHANGED tx
    /\ UNCHANGED <<async_callback, rt_parity>>
    /\ UNCHANGED <<commVars, ctlVars, timeoutVars, smartVars, analyzerVars,
                   readerVars, threadVars>>

\* The reader gives a decoded status line to the installed callback (lines
\* 156-160): a call's handler sets that call's event.
reader_status ==
    /\ running /\ reader_pc = "loop" /\ serial_open
    /\ status_callback \in Callers
    /\ ~qs_got[status_callback]
    /\ qs_got' = [qs_got EXCEPT ![status_callback] = TRUE]
    /\ UNCHANGED <<status_callback, async_callback, qs_pc, qs_old, tx,
                   rt_parity>>
    /\ UNCHANGED <<commVars, ctlVars, timeoutVars, smartVars, analyzerVars,
                   readerVars, threadVars>>

\* query_status returns (lines 118-124): its event was set, or the timeout
\* elapsed; the finally clause restores old_callback.  The call's locals
\* end with it.
query_return(t) ==
    /\ qs_pc[t] = "wait"
    /\ qs_pc' = [qs_pc EXCEPT ![t] = "idle"]
    /\ status_callback' = qs_old[t]
    /\ qs_old' = [qs_old EXCEPT ![t] = ControllerCallback]
    /\ qs_got' = [qs_got EXCEPT ![t] = FALSE]
    /\ UNCHANGED <<async_callback, tx, rt_parity>>
    /\ UNCHANGED <<commVars, ctlVars, timeoutVars, smartVars, analyzerVars,
                   readerVars, threadVars>>

\* ------------------------------------------------------ TimeoutCalculator
\* A Python float: a finite value in thousandths, inf, or nan; Raised stands
\* for an exception raised in place of a value.
F(v) == [k |-> "fin", v |-> v]

Inf == [k |-> "inf", v |-> 0]

NaN == [k |-> "nan", v |-> 0]

Raised == [k |-> "raise", v |-> 0]

\* a / b: ZeroDivisionError for a zero divisor, nan for inf / inf.
FDiv(a, b) ==
    IF a.k = "raise" \/ b.k = "raise" THEN Raised
    ELSE IF b.k = "fin" /\ b.v = 0 THEN Raised
    ELSE IF a.k = "nan" \/ b.k = "nan" THEN NaN
    ELSE IF a.k = "inf" THEN (IF b.k = "inf" THEN NaN ELSE Inf)
    ELSE IF b.k = "inf" THEN F(0)
    ELSE F((a.v * 1000) \div b.v)

\* a * b: nan for inf * 0.
FMul(a, b) ==
    IF a.k = "raise" \/ b.k = "raise" THEN Raised
    ELSE IF a.k = "nan" \/ b.k = "nan" THEN NaN
    ELSE IF a.k = "inf" THEN (IF b.k = "fin" /\ b.v = 0 THEN NaN ELSE Inf)
    ELSE IF b.k = "inf" THEN (IF a.v = 0 THEN NaN ELSE Inf)
    ELSE F((a.v * b.v) \div 1000)

FAdd(a, b) ==
    IF a.k = "raise" \/ b.k = "raise" THEN Raised
    ELSE IF a.k = "nan" \/ b.k = "nan" THEN NaN
    ELSE IF a.k = "inf" \/ b.k = "inf" THEN Inf
    ELSE F(a.v + b.v)

\* a > b: False whenever one side is nan.
FGt(a, b) ==
    IF a.k = "nan" \/ b.k = "nan" THEN FALSE
    ELSE IF a.k = "inf" THEN b.k = "fin"
    ELSE IF b.k = "inf" THEN FALSE
    ELSE a.v > b.v

\* Python's max(a, b) and min(a, b): b replaces a only when it compares
\* greater (smaller).
py_max(a, b) == IF FGt(b, a) THEN b ELSE a

py_min(a, b) == IF FGt(a, b) THEN b ELSE a

\* CommandType (command_analyzer.py lines 11-22).
CommandTypes == {"RAPID_MOVE", "LINEAR_MOVE", "CIRCULAR_MOVE", "HOMING",
                 "STATUS_QUERY", "SETTINGS", "PARAMETERS", "RESET",
                 "REALTIME", "OTHER"}

\* GRBLMachineConfig() (grbl_config.py lines 9-40).
DefaultConfig ==
    [max_rate_x |-> F(1000000), max_rate_y |-> F(1000000),
     max_rate_z |-> F(1000000), max_rate_a |-> F(3600000),
     acceleration_x |-> F(10000), acceleration_y |-> F(10000),
     acceleration_z |-> F(10000), acceleration_a |-> F(360000),
     homing_feed_rate |-> F(25000), homing_seek_rate |-> F(500000),
     max_travel_x |-> F(200000), max_travel_y |-> F(200000),
     max_travel_z |-> F(200000), max_travel_a |-> F(360000),
     num_axes |-> F(4000), has_rotary_a |-> TRUE,
     default_feed_rate |-> F(1000000)]

\* GRBLConfigParser.SETTING_MAP (grbl_config.py lines 47-62).
SETTING_MAP ==
    [i \in {"$110", "$111", "$112", "$113", "$120", "$121", "$122", "$123",
            "$24", "$25", "$130", "$131", "$132", "$133"} |->
        CASE i = "$110" -> "max_rate_x"
          [] i = "$111" -> "max_rate_y"
          [] i = "$112" -> "max_rate_z"
          [] i = "$113" -> "max_rate_a"
          [] i = "$120" -> "acceleration_x"
          [] i = "$121" -> "acceleration_y"
          [] i = "$122" -> "acceleration_z"
          [] i = "$123" -> "acceleration_a"
          [] i = "$24" -> "homing_feed_rate"
          [] i = "$25" -> "homing_seek_rate"
          [] i = "$130" -> "max_travel_x"
          [] i = "$131" -> "max_travel_y"
          [] i = "$132" -> "max_travel_z"
          [] OTHER -> "max_travel_a"]

\* A line of a settings dump: form "setting" matches (\$\d+)=([\d.]+) and
\* its value text is a number (value; a digit string too long for a double
\* is inf); form "badnum" matches but float() rejects the value text (as in
\* "1.2.3"); form "nomatch" does not match.
SettingLine(form, id, value) == [form |-> form, id |-> id, value |-> value]

\* GRBLConfigParser.parse_settings (lines 64-76) from the line at index i
\* on, with config built so far: [ok, config], ok FALSE when float() raised
\* ValueError.
RECURSIVE parse_settings_from(_, _, _)
parse_settings_from(settings_response, i, cfg) ==
    IF i > Len(settings_response) THEN [ok |-> TRUE, config |-> cfg]
    ELSE LET line == settings_response[i]
         IN IF line.form = "nomatch" \/ line.id \notin DOMAIN SETTING_MAP
              THEN parse_settings_from(settings_response, i + 1, cfg)
              ELSE IF line.form = "badnum"
              THEN [ok |-> FALSE, config |-> cfg]
              ELSE parse_settings_from(settings_response, i + 1,
                       [cfg EXCEPT ![SETTING_MAP[line.id]] = line.value])

parse_settings(settings_response) ==
    parse_settings_from(settings_response, 1, DefaultConfig)

\* SafetyMarginProvider.__init__ (movement_calculator.py lines 205-208).
minimum_timeout == F(1000)

maximum_timeout == F(300000)

InitialSafetyFactor == 2000000

\* command_factors.get(command_type, base_safety_factor) (lines 211-226),
\* in thousandths; base is in millionths.
command_factor(command_type, base) ==
    CASE command_type = "HOMING" -> F(3000)
      [] command_type \in {"RAPID_MOVE", "LINEAR_MOVE"} -> F(1500)
      [] command_type \in {"CIRCULAR_MOVE", "OTHER"} -> F(2000)
      [] command_type \in {"STATUS_QUERY", "SETTINGS", "REALTIME"} -> F(1000)
      [] OTHER -> F(base \div 1000)

\* SafetyMarginProvider.apply_safety_margin (lines 222-235).
apply_safety_margin(calculated_time, command_type, base) ==
    py_min(py_max(FMul(calculated_time, command_factor(command_type, base)),
                  minimum_timeout),
           maximum_timeout)

\* get_fixed_timeout gave None.
NoFixed == [k |-> "none", v |-> 0]

\* (mutant of get_fixed_timeout: the parameters query has no fixed value)
get_fixed_timeout_without_parameters(command_type) ==
    CASE command_type = "STATUS_QUERY" -> F(2000)
      [] command_type = "SETTINGS" -> F(5000)
      [] command_type = "REALTIME" -> F(1000)
      [] OTHER -> NoFixed

\* SafetyMarginProvider.get_fixed_timeout (lines 237-246).
get_fixed_timeout(command_type) ==
    CASE command_type = "STATUS_QUERY" -> F(2000)
      [] command_type = "SETTINGS" -> F(5000)
      [] command_type = "PARAMETERS" -> F(3000)
      [] command_type = "REALTIME" -> F(1000)
      [] OTHER -> NoFixed

\* max() of the four travels (line 156).
max_travel(cfg) ==
    py_max(py_max(py_max(cfg.max_travel_x, cfg.max_travel_y),
                  cfg.max_travel_z), cfg.max_travel_a)

\* MovementCalculator._calculate_homing_time (lines 152-170).
calculate_homing_time(cfg) ==
    LET seek_time == FDiv(max_travel(cfg), FDiv(cfg.homing_seek_rate, F(60000)))
        fine_time == FDiv(F(10000), FDiv(cfg.homing_feed_rate, F(60000)))
    IN FMul(FAdd(seek_time, fine_time), cfg.num_axes)

\* MovementCalculator.calculate_movement_time (lines 16-30); move_time is
\* what the linear or arc calculation gives for the command.
calculate_movement_time(command_type, cfg, move_time) ==
    IF command_type = "HOMING" THEN calculate_homing_time(cfg)
    ELSE IF command_type \in {"RAPID_MOVE", "LINEAR_MOVE", "CIRCULAR_MOVE"}
    THEN move_time
    ELSE F(100)

\* TimeoutCalculator.calculate_timeout (calculator.py lines 29-48) for a
\* command parsed to command_type.
calculate_timeout(command_type, cfg, move_time, base) ==
    IF get_fixed_timeout(command_type) # NoFixed
    THEN get_fixed_timeout(command_type)
    ELSE LET calculated_time ==
                 calculate_movement_time(command_type, cfg, move_time)
         IN IF calculated_time = Raised THEN Raised
            ELSE apply_safety_margin(calculated_time, command_type, base)

NoTimeout == [command_type |-> "none", move_time |-> F(0), result |-> Raised]

\* The step just taken was no update_machine_config.
NoDump == <<[form |-> "none", id |-> "", value |-> [k |-> "fin", v |-> 0]]>>

\* TimeoutCalculator.__init__ (calculator.py lines 15-24).
max_history == 100

InitTimeout ==
    /\ config = DefaultConfig
    /\ base_safety_factor = InitialSafetyFactor
    /\ timeout_history = <<>>
    /\ recorded = 0
    /\ last_timeout = NoTimeout
    /\ last_dump = NoDump

\* A calculate_timeout call.
calculate_timeout_call(command_type, move_time) ==
    /\ last_timeout' = [command_type |-> command_type, move_time |-> move_time,
                        result |-> calculate_timeout(command_type, config,
                                       move_time, base_safety_factor)]
    /\ last_dump' = NoDump
    /\ UNCHANGED <<config, base_safety_factor, timeout_history, recorded>>
    /\ UNCHANGED <<commVars, ctlVars, queryVars, smartVars, analyzerVars,
                   readerVars, threadVars>>

\* TimeoutCalculator.update_machine_config (calculator.py lines 50-61): the
\* parsed configuration replaces the old one; an exception of the parser is
\* logged and the configuration stays.
update_machine_config(settings_response) ==
    /\ config' = IF parse_settings(settings_response).ok
                 THEN parse_settings(settings_response).config
                 ELSE config
    /\ last_dump' = settings_response
    /\ last_timeout' = NoTimeout
    /\ UNCHANGED <<base_safety_factor, timeout_history, recorded>>
    /\ UNCHANGED <<commVars, ctlVars, queryVars, smartVars, analyzerVars,
                   readerVars, threadVars>>

\* 'accuracy' of a record (calculator.py line 69), in hundredths.
accuracy(predicted_time, actual_time) ==
    IF predicted_time > 0 THEN (actual_time * 100) \div predicted_time
    ELSE 100

\* (mutant of record_history: a full history refuses the new record)
record_history_drops_newest(history, record) ==
    IF Len(history) >= max_history THEN history ELSE Append(history, record)

\* append, then pop(0) past max_history (lines 65-74).
record_history(history, record) ==
    IF Len(Append(history, record)) > max_history
    THEN Tail(Append(history, record))
    ELSE Append(history, record)

\* sum of 'accuracy' over history[-10:] (lines 78-79), in hundredths.
RECURSIVE recent_accuracy_sum(_, _)
recent_accuracy_sum(history, k) ==
    IF k = 0 \/ k > Len(history) THEN 0
    ELSE history[Len(history) - k + 1].accuracy
         + recent_accuracy_sum(history, k - 1)

\* (mutant of adapted_factor: the two adjustments are exchanged)
adapted_factor_exchanged(base, history) ==
    IF Len(history) < 10 THEN base
    ELSE IF recent_accuracy_sum(history, 10) > 1200 THEN (base * 105) \div 100
    ELSE IF recent_accuracy_sum(history, 10) < 800 THEN (base * 95) \div 100
    ELSE base

\* The adaptive adjustment (lines 76-86): with 10 records or more, the mean
\* of the last 10 accuracies above 1.2 shrinks the factor by 5%, below 0.8
\* grows it by 5%.
adapted_factor(base, history) ==
    IF Len(history) < 10 THEN base
    ELSE IF recent_accuracy_sum(history, 10) > 1200 THEN (base * 95) \div 100
    ELSE IF recent_accuracy_sum(history, 10) < 800 THEN (base * 105) \div 100
    ELSE base

\* TimeoutCalculator.record_execution_time (lines 63-86); the record's n
\* stands for its command.
record_execution_time(predicted_time, actual_time) ==
    /\ recorded' = recorded + 1
    /\ timeout_history' =
          record_history(timeout_history,
                         [n |-> recorded + 1, predicted |-> predicted_time,
                          actual |-> actual_time,
                          accuracy |-> accuracy(predicted_time, actual_time)])
    /\ base_safety_factor' = adapted_factor(base_safety_factor,
                                             timeout_history')
    /\ last_timeout' = NoTimeout
    /\ last_dump' = NoDump
    /\ UNCHANGED config
    /\ UNCHANGED <<commVars, ctlVars, queryVars, smartVars, analyzerVars,
                   readerVars, threadVars>>

\* ----------------------------------------------------------- GRBLController
Pos0 == <<0, 0, 0>>

\* A position a status line or a decoded report does not hold.
NoPos == <<>>

\* query_status gave None (connect's .get default for the position is
\* [0.0, 0.0, 0.0]).
NoReport == [state |-> "None", machine_position |-> Pos0,
             work_position |-> NoPos]

NoLine == [state |-> "None", mpos |-> NoPos, wpos |-> NoPos]

\* The last step decoded no status report.
NoDecode == [by |-> "none", line |-> NoLine, pos_changed |-> FALSE,
             status_changed |-> FALSE, pos_event |-> FALSE,
             status_event |-> FALSE]

NoOp == [op |-> "none", res |-> "none", conn |-> FALSE, wrote |-> FALSE,
         failed |-> FALSE, act |-> FALSE, outst |-> FALSE, prev |-> FALSE]

NoRecovery == [first |-> "None", resumes |-> 0, unlocks |-> 0, requeries |-> 0,
               requeried |-> "None", cmd_failed |-> FALSE,
               resume_failed |-> FALSE]

InitCtl ==
    /\ is_connected_flag = FALSE
    /\ current_position = Pos0
    /\ current_status = "Unknown"
    /\ work_offsets = Pos0
    /\ cn_pc = "idle"
    /\ status_data = NoReport
    /\ last_op = NoOp
    /\ active = FALSE
    /\ outstanding = FALSE
    /\ recovery = NoRecovery
    /\ decoded = NoDecode
    /\ stages = <<>>

\* timeout=None, and no timeout forwarded.
NoTimeoutArg == [k |-> "none", v |-> 0]

\* No call of the wrapper was made yet.
NoCall == [op |-> "none", command_type |-> "none", move_time |-> F(0),
           timeout_arg |-> NoTimeoutArg, consulted |-> FALSE,
           position |-> <<>>, forwarded |-> NoTimeoutArg, sent |-> FALSE,
           records |-> 0, res |-> "none", success |-> FALSE,
           was_initialized |-> FALSE, issued |-> FALSE, load |-> "none",
           config_kept |-> TRUE]

\* SmartTimeoutController.__init__ (smart_timeout_controller.py lines 24-30).
InitSmart ==
    /\ config_initialized = FALSE
    /\ last_call = NoCall

\* No call of the analyzer or the movement calculator has been made.
NoParse == [gcode |-> "none", words |-> <<>>, current_pos |-> <<0, 0, 0, 0>>,
            target |-> <<0, 0, 0, 0>>]

NoDistance == [by |-> "none", has_rotary |-> FALSE, a |-> 0, b |-> 0,
               a_distance |-> 0]

InitAnalyzer ==
    /\ last_parse = NoParse
    /\ last_distance = NoDistance

\* The reader has read nothing and no callback has been called.
InitReader ==
    /\ unsolicited = 0
    /\ read_log = <<>>
    /\ segment = <<>>
    /\ completed_segment = [i \in Ids |-> <<>>]
    /\ status_delivered = <<>>
    /\ async_delivered = <<>>
    /\ orphans = {}

\* No caller thread is inside send_command_async, and no reader thread has
\* been left behind by a stop().
InitThreads ==
    /\ reg_pc = [t \in Callers |-> "idle"]
    /\ reg_seen = [t \in Callers |-> 0]
    /\ reg_id = [t \in Callers |-> 0]
    /\ issued = <<>>
    /\ extra_readers = 0

\* ------------------------------------------------------ the Communicator
\* The Communicator is given a transport that is open.
Init ==
    InitComm /\ serial_open = TRUE /\ InitCtl /\ InitQuery /\ InitTimeout
    /\ InitSmart /\ InitAnalyzer /\ InitReader /\ InitThreads

Next ==
    \/ start
    \/ \E sync \in BOOLEAN : send_register(sync)
    \/ \E ok \in BOOLEAN : send_write(ok)
    \/ send_sync_return
    \/ send_sync_timeout
    \/ \E id \in Ids : deadline_passes(id)
    \/ device_data
    \/ \E k \in {"ok", "error"} : device_terminal(k)
    \/ reader_line
    \/ reader_sweep_begin
    \/ reader_sweep_next

Spec == Init /\ [][Next]_vars

\* ------------------------------------- the Communicator with stop() calls
\* The caller thread, the reader and the device of Spec, without the passing
\* of deadlines, and a thread that calls start() and stop().
NextStop ==
    \/ start
    \/ \E sync \in BOOLEAN : send_register(sync)
    \/ \E ok \in BOOLEAN : send_write(ok)
    \/ send_sync_return
    \/ \E k \in {"ok", "error"} : device_terminal(k)
    \/ reader_line
    \/ reader_exit
    \/ stop_begin
    \/ stop_next
    \/ stop_clear
    \/ stop_join

SpecStop == Init /\ [][NextStop]_vars

NextReader ==
    \/ start
    \/ send_register(FALSE)
    \/ send_write(TRUE)
    \/ device_data
    \/ device_terminal("ok")
    \/ \E k \in UnsolicitedKinds : device_unsolicited(k)
    \/ reader_line

\* The reader with status and async lines arriving among the answers.
SpecReader == Init /\ [][NextReader]_vars

NextSweep ==
    \/ start
    \/ send_register(FALSE)
    \/ send_write(TRUE)
    \/ \E id \in Ids : deadline_passes(id)
    \/ device_stream
    \/ reader_line
    \/ reader_sweep_begin
    \/ reader_sweep_next

\* A step of the reader thread.
reader_step == reader_line \/ reader_sweep_begin \/ reader_sweep_next

\* The reader under an endless stream of status lines.  start() is called,
\* and the reader thread, once started, keeps being scheduled: it takes a
\* step whenever it has one to take.
SpecSweep ==
    Init /\ [][NextSweep]_vars /\ WF_vars(start) /\ WF_vars(reader_step)

NextQuery ==
    \/ start
    \/ \E sync \in BOOLEAN : send_register(sync)
    \/ \E ok \in BOOLEAN : send_write(ok)
    \/ \E ok \in BOOLEAN : comm_send_realtime_command(ok)
    \/ \E t \in Callers : query_begin(t)
    \/ \E t \in Callers, ok \in BOOLEAN : query_write(t, ok)
    \/ reader_status
    \/ \E t \in Callers : query_return(t)

\* The Communicator with realtime commands and concurrent query_status
\* calls.
SpecQuery == Init /\ [][NextQuery]_vars

\* ------------------------------------------------- the TimeoutCalculator
MaxDump == 2

MaxRecords == 15

MaxFill == 102

\* The lines of the settings dumps tried: values too long for a double,
\* a zero rate, an ordinary value, a value float() rejects, an unknown id,
\* and a line that is no setting.
SettingLines ==
    {SettingLine("setting", "$130", Inf), SettingLine("setting", "$25", Inf),
     SettingLine("setting", "$25", F(0)),
     SettingLine("setting", "$110", F(500000)),
     SettingLine("badnum", "$110", F(0)),
     SettingLine("setting", "$999", F(123456)),
     SettingLine("nomatch", "", F(0))}

Dumps == UNION {[1..n -> SettingLines] : n \in 0..MaxDump}

\* What the linear and arc calculations give, in thousandths of a second.
MoveTimes == {F(0), F(2000), F(400000)}

\* record_execution_time, a bounded number of times.
record_bounded(predicted_time, actual_time) ==
    /\ recorded < MaxRecords
    /\ record_execution_time(predicted_time, actual_time)

\* record_execution_time with the same times at every call, past the
\* capacity of the history.
record_fill(predicted_time, actual_time) ==
    /\ recorded < MaxFill
    /\ timeout_history # <<>> =>
          /\ timeout_history[1].predicted = predicted_time
          /\ timeout_history[1].actual = actual_time
    /\ record_execution_time(predicted_time, actual_time)

NextTimeout ==
    \/ \E t \in CommandTypes, m \in MoveTimes : calculate_timeout_call(t, m)
    \/ \E d \in Dumps : update_machine_config(d)
    \/ record_bounded(10, 14)

\* calculate_timeout under every configuration a dump gives.
SpecTimeout == Init /\ [][NextTimeout]_vars

NextAdapt == \E actual \in {6, 14} : record_bounded(10, actual)

\* The adaptive safety factor over every mix of slow and fast executions.
SpecAdapt == Init /\ [][NextAdapt]_vars

NextHistory ==
    \E predicted \in {0, 10}, actual \in {10, 14} :
        record_fill(predicted, actual)

\* The history filled past its capacity.
SpecHistory == Init /\ [][NextHistory]_vars

\* ================================================================ Controller
\* Requests the Controller's operations register in one run.
MaxOps == 2

\* The Communicator's variables no Controller step touches.
commOnly == <<future, expired, rx, responses_buffer, sweep_size, sweep_pos,
              timed_out, snd_pc, snd_id, snd_sync, snd_res, stop_pc, stop_size,
              stop_pos, devq, answer, completed, sync_timed_out, pre_stop,
              stop_called, stop_raised, queryVars>>

\* What the device can report: a state label and a machine position.
DevStates == {"Idle", "Hold:0", "Alarm"}

Pos1 == <<1, 2, 3>>

Positions == {Pos0, Pos1}

\* The status lines the device sends: <state|MPos:...|WPos:...> with either
\* position field present or not.
StatusLines == [state : DevStates, mpos : Positions \cup {NoPos},
                wpos : {Pos1, NoPos}]

\* GRBLResponseParser.parse_status_response: the state label, MPos as the
\* machine position when the line has it and WPos otherwise, WPos as the
\* work position when the line has it; None without any position.
parse_status_response(line) ==
    IF line.mpos = NoPos /\ line.wpos = NoPos THEN NoReport
    ELSE [state |-> line.state,
          machine_position |-> IF line.mpos # NoPos THEN line.mpos
                               ELSE line.wpos,
          work_position |-> line.wpos]

\* The lines the parser decodes.
DecodableLines == {l \in StatusLines : parse_status_response(l) # NoReport}

Reports == {parse_status_response(l) : l \in DecodableLines}

Add3(a, b) == <<a[1] + b[1], a[2] + b[2], a[3] + b[3]>>

\* The machine position a consumer takes from a decoded report: the
\* report's, else work position + work offsets when it has only that, else
\* the consumer's default.
machine_position_of(report, offsets, default) ==
    IF report.machine_position # NoPos THEN report.machine_position
    ELSE IF report.work_position # NoPos
    THEN Add3(report.work_position, offsets)
    ELSE default

\* The record of a decoded status line: who consumed it, whether the
\* cached position and status changed to the given new values, and whether
\* POSITION_CHANGED and STATUS_CHANGED were emitted (a consumer that
\* notifies emits each for a changed value, controller.py lines 296-300).
Decode(by, line, position, status, notifies) ==
    [by |-> by, line |-> line,
     pos_changed |-> position # current_position,
     status_changed |-> status # current_status,
     pos_event |-> notifies /\ position # current_position,
     status_event |-> notifies /\ status # current_status]

IsHold(status) == status = "Hold:0"

\* GRBLController.is_connected (the mutant forgets the flag).
is_connected_open_only == serial_open

is_connected == is_connected_flag /\ serial_open

\* The reader thread is there to deliver what the device sends.
reader_alive == running /\ reader_pc = "loop"

\* query_status(timeout): a decoded report, None after the timeout, or an
\* error (transport not open, write failure).
QNone == [kind |-> "none", report |-> NoReport, line |-> NoLine]

QRaise == [kind |-> "raise", report |-> NoReport, line |-> NoLine]

QReport(l) == [kind |-> "report", report |-> parse_status_response(l),
               line |-> l]

\* The lines that hold a machine position only.
MPosLines == {l \in StatusLines : l.mpos # NoPos /\ l.wpos = NoPos}

QueryOutcomes == {QReport(l) : l \in MPosLines} \cup {QNone, QRaise}

StatusQueryOutcomes == {QReport(l) : l \in DecodableLines} \cup {QNone, QRaise}

query_status_outcomes ==
    IF ~serial_open THEN {QRaise}
    ELSE IF reader_alive
    THEN StatusQueryOutcomes
    ELSE {QNone, QRaise}

\* send_command_sync(command, timeout): response lines holding an ok, lines
\* ending in error:N, a timeout (the entry swept by the reader, or still in
\* the table when future.result gave up), a write error, or ConnectionError
\* when the transport is not open.
send_command_sync_outcomes ==
    IF ~serial_open THEN {"notopen"}
    ELSE IF reader_alive
    THEN {"ok", "error", "timeout_swept", "timeout_leaked", "transport"}
    ELSE {"timeout_leaked", "transport"}

\* The exchange completed: the reader fulfilled the request with lines.
completed_exchange(outcome) == outcome \in {"ok", "error"}

\* The table and the counter after send_command_sync ended with outcome.
sync_counter(outcome) ==
    IF outcome = "notopen" THEN command_counter ELSE command_counter + 1

sync_pending(outcome) ==
    IF outcome = "timeout_leaked"
    THEN pending_commands \cup {command_counter + 1}
    ELSE pending_commands

\* The record of an operation: its name, what it gave its caller, whether
\* is_connected() held when it was called, whether it wrote to the
\* transport, whether its exchange failed at the communication layer, and
\* the connection history before it.
Op(name, res, wrote, failed) ==
    [op |-> name, res |-> res, conn |-> is_connected_flag /\ serial_open,
     wrote |-> wrote, failed |-> failed, act |-> active,
     outst |-> outstanding, prev |-> last_op.op = "disconnect"]

\* What GRBLCommunicator.stop() can do under _cleanup_connection: end
\* ("clean"), or raise RuntimeError out of its loop over the table when the
\* reader thread removes an entry meanwhile ("raised"); n entries are needed
\* for n such calls to raise.
stop_outcomes(n) ==
    IF reader_alive /\ Cardinality(pending_commands) >= n
    THEN {"clean", "raised"} ELSE {"clean"}

\* GRBLController._cleanup_connection (lines 340-347), with
\* GRBLCommunicator.stop() and SerialConnection.close().  When stop() raises,
\* the flag and _running are already False, the reader took removed entries
\* out of the table, and the lines after stop() are not reached.
cleanup_connection(removed) ==
    /\ is_connected_flag' = FALSE
    /\ running' = FALSE
    /\ active' = FALSE
    /\ IF removed = 0
         THEN /\ pending_commands' = {}
              /\ reader_pc' = "dead"
              /\ serial_open' = FALSE
              /\ current_position' = Pos0
              /\ current_status' = "Disconnected"
              /\ work_offsets' = Pos0
         ELSE /\ pending_commands' =
                    IF removed = 1 THEN completion_pending(pending_commands)
                    ELSE completion_pending(completion_pending(pending_commands))
              /\ UNCHANGED <<reader_pc, serial_open, current_position,
                             current_status, work_offsets>>

\* connect() fails after the transport was opened (lines 120-128): cleanup
\* and return False; when the cleanup raises, the outer handler runs it
\* again, and connect() raises when that one raises too.
connect_fails ==
    /\ \E first \in stop_outcomes(1), second \in stop_outcomes(2) :
          /\ cleanup_connection(IF first = "clean" \/ second = "clean"
                                THEN 0 ELSE 2)
          /\ last_op' = Op("connect",
                           IF first = "clean" \/ second = "clean"
                           THEN "False" ELSE "raised", TRUE, TRUE)
    /\ cn_pc' = "idle"
    /\ UNCHANGED <<command_counter, outstanding>>

\* ---------------------------------------------------- GRBLController.connect
\* serial.open (which closes an open port first) and, when it succeeds,
\* communicator.start() (lines 46-55).  A failed open returns False at once.
\* reader_ends: a running reader saw the port closed while it was reopened.
connect_open(ok, reader_ends) ==
    /\ cn_pc = "idle"
    /\ recovery' = NoRecovery
    /\ status_data' = NoReport
    /\ IF ~ok
         THEN /\ serial_open' = FALSE
              /\ cn_pc' = "idle"
              /\ last_op' = Op("connect", "False", FALSE, TRUE)
              /\ UNCHANGED <<running, reader_pc>>
         ELSE /\ serial_open' = TRUE
              /\ cn_pc' = "query1"
              /\ last_op' = Op("connect_open", "none", FALSE, FALSE)
              /\ running' = TRUE
              /\ reader_pc' = IF ~running THEN "loop"
                              ELSE IF reader_ends THEN "dead" ELSE reader_pc
    /\ UNCHANGED <<pending_commands, command_counter, is_connected_flag,
                   current_position, current_status, work_offsets, active,
                   outstanding>>
    /\ decoded' = NoDecode
    /\ stages' = IF ok THEN <<"open", "start">> ELSE <<"open">>
    /\ UNCHANGED <<commOnly, timeoutVars, smartVars, analyzerVars,
                   readerVars, threadVars>>

\* The stage after the first status query (lines 60-77).
after_first_query(state) ==
    IF IsHold(state) THEN "resume"
    ELSE IF state = "Alarm" THEN "unlock" ELSE "offsets"

\* The first status query (lines 58-62, 117-118): a report sets the
\* connected flag and the cached status; no report fails the connect.
connect_query1(q) ==
    /\ cn_pc = "query1"
    /\ q \in query_status_outcomes
    /\ IF q.kind = "report"
         THEN /\ is_connected_flag' = TRUE
              /\ current_status' = q.report.state
              /\ status_data' = q.report
              /\ cn_pc' = after_first_query(q.report.state)
              /\ recovery' = [recovery EXCEPT !.first = q.report.state]
              /\ last_op' = Op("connect_query1", "none", TRUE, FALSE)
              /\ UNCHANGED <<running, pending_commands, reader_pc,
                             serial_open, current_position, work_offsets,
                             active, command_counter, outstanding>>
         ELSE /\ connect_fails
              /\ UNCHANGED <<status_data, recovery>>
    /\ decoded' = IF q.kind = "report" THEN Decode("connect", q.line, current_position, q.report.state,
                            FALSE)
                ELSE NoDecode
    /\ stages' = Append(stages, "status")
    /\ UNCHANGED <<commOnly, timeoutVars, smartVars, analyzerVars,
                   readerVars, threadVars>>

\* (mutant of after_hold_requery: a state still in Hold is resumed again)
after_hold_requery_loops(status) ==
    IF IsHold(status) THEN "resume"
    ELSE IF status = "Alarm" THEN "unlock" ELSE "offsets"

\* The stage after the hold re-query (line 77): only Alarm is looked at.
after_hold_requery(status) ==
    IF status = "Alarm" THEN "unlock" ELSE "offsets"

\* Hold: send_realtime_command("~") (lines 65-68); a failed write raises
\* out of the try block and fails the connect.
connect_resume(ok) ==
    /\ cn_pc = "resume"
    /\ IF ok /\ serial_open
         THEN /\ cn_pc' = "requery_hold"
              /\ recovery' = [recovery EXCEPT !.resumes = @ + 1]
              /\ last_op' = Op("connect_resume", "none", TRUE, FALSE)
              /\ UNCHANGED <<running, pending_commands, reader_pc,
                             serial_open, current_position, current_status,
                             work_offsets, active, command_counter,
                             outstanding, is_connected_flag>>
         ELSE /\ connect_fails
              /\ recovery' = [recovery EXCEPT !.resumes = @ + 1,
                                              !.resume_failed = TRUE]
    /\ UNCHANGED status_data
    /\ decoded' = NoDecode
    /\ stages' = Append(stages, "resume")
    /\ UNCHANGED <<commOnly, timeoutVars, smartVars, analyzerVars,
                   readerVars, threadVars>>

\* Hold: the re-query (lines 70-74).  None leaves the cached status alone.
connect_requery_hold(q) ==
    /\ cn_pc = "requery_hold"
    /\ q \in query_status_outcomes
    /\ IF q.kind = "raise"
         THEN /\ connect_fails
              /\ UNCHANGED <<status_data, recovery>>
         ELSE /\ status_data' = q.report
              /\ current_status' = IF q.kind = "report" THEN q.report.state
                                   ELSE current_status
              /\ cn_pc' = after_hold_requery(current_status')
              /\ recovery' = [recovery EXCEPT !.requeries = @ + 1,
                                              !.requeried = q.report.state]
              /\ last_op' = Op("connect_requery_hold", "none", TRUE, FALSE)
              /\ UNCHANGED <<running, pending_commands, reader_pc,
                             serial_open, current_position, work_offsets,
                             active, command_counter, outstanding,
                             is_connected_flag>>
    /\ decoded' = IF q.kind = "report" THEN Decode("connect", q.line, current_position, q.report.state,
                            FALSE)
                ELSE NoDecode
    /\ stages' = Append(stages, "requery_hold")
    /\ UNCHANGED <<commOnly, timeoutVars, smartVars, analyzerVars,
                   readerVars, threadVars>>

\* Alarm: send_command_sync("$X") (lines 77-81, 88-91).  Anything but an ok
\* is logged and the connect goes on.
connect_unlock(outcome) ==
    /\ cn_pc = "unlock"
    /\ command_counter < MaxOps
    /\ outcome \in send_command_sync_outcomes
    /\ command_counter' = sync_counter(outcome)
    /\ pending_commands' = sync_pending(outcome)
    /\ cn_pc' = IF outcome = "ok" THEN "requery_alarm" ELSE "offsets"
    /\ recovery' = [recovery EXCEPT !.unlocks = @ + 1,
                                    !.cmd_failed = (outcome # "ok")]
    /\ last_op' = Op("connect_unlock", "none", outcome # "notopen",
                     ~completed_exchange(outcome))
    /\ UNCHANGED <<running, reader_pc, serial_open, current_position,
                   current_status, work_offsets, active, outstanding,
                   is_connected_flag, status_data>>
    /\ decoded' = NoDecode
    /\ stages' = Append(stages, "unlock")
    /\ UNCHANGED <<commOnly, timeoutVars, smartVars, analyzerVars,
                   readerVars, threadVars>>

\* Alarm: the re-query after an ok (lines 82-87); an error it raises is
\* caught with the unlock's (lines 90-91).
connect_requery_alarm(q) ==
    /\ cn_pc = "requery_alarm"
    /\ q \in query_status_outcomes
    /\ status_data' = IF q.kind = "raise" THEN status_data ELSE q.report
    /\ current_status' = IF q.kind = "report" THEN q.report.state
                         ELSE current_status
    /\ cn_pc' = "offsets"
    /\ recovery' = [recovery EXCEPT !.requeries = @ + 1,
                                    !.requeried = q.report.state]
    /\ last_op' = Op("connect_requery_alarm", "none", q.kind # "raise",
                     q.kind = "raise")
    /\ UNCHANGED <<running, pending_commands, reader_pc, serial_open,
                   current_position, work_offsets, active, command_counter,
                   outstanding, is_connected_flag>>
    /\ decoded' = IF q.kind = "report" THEN Decode("connect", q.line, current_position, q.report.state,
                            FALSE)
                ELSE NoDecode
    /\ stages' = Append(stages, "requery_alarm")
    /\ UNCHANGED <<commOnly, timeoutVars, smartVars, analyzerVars,
                   readerVars, threadVars>>

\* _update_work_offsets (lines 94, 302-331): send_command_sync("$#"); the
\* offsets are replaced when the response holds a [G5x:...] line (found),
\* and left as they are otherwise.
connect_offsets(outcome, found, offs) ==
    /\ cn_pc = "offsets"
    /\ command_counter < MaxOps
    /\ outcome \in send_command_sync_outcomes
    /\ command_counter' = sync_counter(outcome)
    /\ pending_commands' = sync_pending(outcome)
    /\ work_offsets' = IF completed_exchange(outcome) /\ found THEN offs
                       ELSE work_offsets
    /\ cn_pc' = "final"
    /\ last_op' = Op("connect_offsets", "none", outcome # "notopen",
                     ~completed_exchange(outcome))
    /\ UNCHANGED <<running, reader_pc, serial_open, current_position,
                   current_status, active, outstanding, is_connected_flag,
                   status_data, recovery>>
    /\ decoded' = NoDecode
    /\ stages' = Append(stages, "offsets")
    /\ UNCHANGED <<commOnly, timeoutVars, smartVars, analyzerVars,
                   readerVars, threadVars>>

\* (mutant of final_stages: CONNECTED is emitted whatever the final query did)
final_stages_always(success) == <<"final", "notify">>

\* What connect() does from the final status query on (lines 97-116): the
\* query, and, when it neither raised nor left nothing to fall back on,
\* emit(CONNECTED) just before return True (lines 115-116).
final_stages(success) ==
    IF success THEN <<"final", "notify">> ELSE <<"final">>

\* The final status query (lines 97-116): the cached position and status
\* come from it, or the position from status_data when it gave None (which
\* raises AttributeError when status_data is None too); then CONNECTED is
\* emitted and connect() returns True.
connect_final(q) ==
    /\ cn_pc = "final"
    /\ q \in query_status_outcomes
    /\ IF q.kind = "raise" \/ (q.kind = "none" /\ status_data = NoReport)
         THEN /\ connect_fails
         ELSE /\ current_position' = IF q.kind = "report"
                                     THEN machine_position_of(q.report,
                                              work_offsets, Pos0)
                                     ELSE status_data.machine_position
              /\ current_status' = IF q.kind = "report" THEN q.report.state
                                   ELSE current_status
              /\ cn_pc' = "idle"
              /\ active' = TRUE
              /\ outstanding' = TRUE
              /\ last_op' = Op("connect", "True", TRUE, FALSE)
              /\ UNCHANGED <<running, pending_commands, reader_pc,
                             serial_open, work_offsets, command_counter,
                             is_connected_flag>>
    /\ UNCHANGED <<status_data, recovery>>
    /\ decoded' = IF q.kind = "report"
                THEN Decode("connect_final", q.line,
                            machine_position_of(q.report, work_offsets, Pos0),
                            q.report.state, FALSE)
                ELSE NoDecode
    /\ stages' = stages \o final_stages(~(q.kind = "raise" \/ (q.kind = "none" /\ status_data = NoReport)))
    /\ UNCHANGED <<commOnly, timeoutVars, smartVars, analyzerVars,
                   readerVars, threadVars>>

\* ------------------------------------------------- GRBLController.disconnect
\* Whether disconnect() emits DISCONNECTED (lines 138-139).
disconnect_emits(was_connected) == was_connected

\* disconnect() (lines 131-140), called when no connect() is under way.
\* When the cleanup raises, so does disconnect(), before it emits anything.
disconnect ==
    /\ cn_pc = "idle"
    /\ \E stopped \in stop_outcomes(1) :
          /\ cleanup_connection(IF stopped = "clean" THEN 0 ELSE 1)
          /\ outstanding' = IF stopped = "clean"
                               /\ disconnect_emits(is_connected_flag)
                            THEN FALSE ELSE outstanding
          /\ last_op' = Op("disconnect",
                           IF stopped # "clean" THEN "raised"
                           ELSE IF disconnect_emits(is_connected_flag)
                           THEN "emitted" ELSE "silent", FALSE, FALSE)
    /\ UNCHANGED <<command_counter, cn_pc, status_data, recovery>>
    /\ decoded' = NoDecode
    /\ UNCHANGED stages
    /\ UNCHANGED <<commOnly, timeoutVars, smartVars, analyzerVars,
                   readerVars, threadVars>>

\* --------------------------------------- the connection-gated operations
\* send_command (lines 250-256): refused when not connected, else
\* send_command_sync.
send_command(outcome) ==
    /\ IF ~is_connected
         THEN /\ last_op' = Op("send_command", "error", FALSE, FALSE)
              /\ UNCHANGED <<command_counter, pending_commands>>
         ELSE /\ command_counter < MaxOps
              /\ outcome \in send_command_sync_outcomes
              /\ command_counter' = sync_counter(outcome)
              /\ pending_commands' = sync_pending(outcome)
              /\ last_op' = Op("send_command",
                               IF completed_exchange(outcome) THEN "lines"
                               ELSE "error",
                               outcome # "notopen",
                               ~completed_exchange(outcome))
    /\ UNCHANGED <<running, reader_pc, serial_open, is_connected_flag,
                   current_position, current_status, work_offsets, cn_pc,
                   status_data, active, outstanding, recovery>>
    /\ decoded' = NoDecode
    /\ UNCHANGED stages
    /\ UNCHANGED <<commOnly, timeoutVars, smartVars, analyzerVars,
                   readerVars, threadVars>>

\* send_command_async (lines 258-264): refused when not connected, else the
\* Communicator registers the request and writes it; a failed write deletes
\* the entry again.
send_command_async(write_ok) ==
    /\ IF ~is_connected
         THEN /\ last_op' = Op("send_command_async", "error", FALSE, FALSE)
              /\ UNCHANGED <<command_counter, pending_commands>>
         ELSE /\ command_counter < MaxOps
              /\ command_counter' = command_counter + 1
              /\ pending_commands' = IF write_ok
                                     THEN pending_commands \cup {command_counter + 1}
                                     ELSE pending_commands
              /\ last_op' = Op("send_command_async", "future", write_ok,
                               ~write_ok)
    /\ UNCHANGED <<running, reader_pc, serial_open, is_connected_flag,
                   current_position, current_status, work_offsets, cn_pc,
                   status_data, active, outstanding, recovery>>
    /\ decoded' = NoDecode
    /\ UNCHANGED stages
    /\ UNCHANGED <<commOnly, timeoutVars, smartVars, analyzerVars,
                   readerVars, threadVars>>

\* send_realtime_command (lines 266-271): refused when not connected, else
\* one write.
send_realtime_command(write_ok) ==
    /\ last_op' = IF ~is_connected
                  THEN Op("send_realtime_command", "error", FALSE, FALSE)
                  ELSE Op("send_realtime_command",
                          IF write_ok THEN "none" ELSE "error", write_ok,
                          ~write_ok)
    /\ UNCHANGED <<running, reader_pc, serial_open, is_connected_flag,
                   current_position, current_status, work_offsets, cn_pc,
                   status_data, active, outstanding, recovery,
                   command_counter, pending_commands>>
    /\ decoded' = NoDecode
    /\ UNCHANGED stages
    /\ UNCHANGED <<commOnly, timeoutVars, smartVars, analyzerVars,
                   readerVars, threadVars>>

\* get_position (lines 147-161): refused when not connected, else the
\* position of a fresh status report is cached and returned.
get_position(q) ==
    /\ IF ~is_connected
         THEN /\ last_op' = Op("get_position", "error", FALSE, FALSE)
              /\ UNCHANGED current_position
         ELSE /\ q \in query_status_outcomes
              /\ current_position' = IF q.kind = "report"
                                     THEN q.report.machine_position
                                     ELSE current_position
              /\ last_op' = Op("get_position",
                               IF q.kind = "report" THEN "position"
                               ELSE "error",
                               TRUE, q.kind # "report")
    /\ UNCHANGED <<running, reader_pc, serial_open, is_connected_flag,
                   current_status, work_offsets, cn_pc, status_data, active,
                   outstanding, recovery, command_counter, pending_commands>>
    /\ decoded' = IF is_connected /\ q.kind = "report"
                THEN Decode("get_position", q.line,
                            q.report.machine_position, current_status, FALSE)
                ELSE NoDecode
    /\ UNCHANGED stages
    /\ UNCHANGED <<commOnly, timeoutVars, smartVars, analyzerVars,
                   readerVars, threadVars>>

\* get_status (lines 163-176): "Disconnected" when not connected, else the
\* state of a fresh status report is cached and returned, "Unknown" when
\* there is none.
get_status(q) ==
    /\ IF ~is_connected
         THEN /\ last_op' = Op("get_status", "Disconnected", FALSE, FALSE)
              /\ UNCHANGED current_status
         ELSE /\ q \in query_status_outcomes
              /\ current_status' = IF q.kind = "report" THEN q.report.state
                                   ELSE current_status
              /\ last_op' = Op("get_status",
                               IF q.kind = "report" THEN q.report.state
                               ELSE "Unknown",
                               TRUE, q.kind # "report")
    /\ UNCHANGED <<running, reader_pc, serial_open, is_connected_flag,
                   current_position, work_offsets, cn_pc, status_data, active,
                   outstanding, recovery, command_counter, pending_commands>>
    /\ decoded' = IF is_connected /\ q.kind = "report"
                THEN Decode("get_status", q.line, current_position,
                            q.report.state, FALSE)
                ELSE NoDecode
    /\ UNCHANGED stages
    /\ UNCHANGED <<commOnly, timeoutVars, smartVars, analyzerVars,
                   readerVars, threadVars>>

\* --------------------------------------------- the movement operations
MovementOps == {"home", "move_to", "jog_relative", "unlock"}

\* (mutant of movement_result: a failed exchange is raised to the caller)
movement_result_raises(outcome) ==
    IF outcome = "ok" THEN "True"
    ELSE IF outcome = "error" THEN "False" ELSE "error"

\* GRBLController.home / move_to / jog_relative / unlock (lines 179-210,
\* 240-247): True when a response line is ok; every exception of
\* send_command_sync is caught, logged and turned into False.
movement_result(outcome) == IF outcome = "ok" THEN "True" ELSE "False"

\* The Controller's operation op: send_command_sync without a connection
\* check of its own.
movement(op, outcome) ==
    /\ command_counter < MaxOps
    /\ outcome \in send_command_sync_outcomes
    /\ command_counter' = sync_counter(outcome)
    /\ pending_commands' = sync_pending(outcome)
    /\ last_op' = Op(op, movement_result(outcome), outcome # "notopen",
                     ~completed_exchange(outcome))
    /\ UNCHANGED <<running, reader_pc, serial_open, is_connected_flag,
                   current_position, current_status, work_offsets, cn_pc,
                   status_data, active, outstanding, recovery>>
    /\ decoded' = NoDecode
    /\ UNCHANGED stages
    /\ UNCHANGED <<commOnly, timeoutVars, smartVars, analyzerVars,
                   readerVars, threadVars>>

\* SmartTimeoutController._execute_with_timeout under home / move_to /
\* jog_relative (smart_timeout_controller.py lines 61-103, 161-163): the
\* Controller's send_command, whose errors are re-raised.
smart_result(outcome) ==
    IF outcome = "ok" THEN "True"
    ELSE IF outcome = "error" THEN "False" ELSE "error"

SmartName(op) ==
    CASE op = "home" -> "smart_home"
      [] op = "move_to" -> "smart_move_to"
      [] op = "jog_relative" -> "smart_jog_relative"
      [] OTHER -> "smart_unlock"

\* The wrapper's operation op: unlock delegates to the Controller's unlock
\* (lines 114-115); the others go through the gated send_command.
smart_movement(op, outcome) ==
    /\ IF op # "unlock" /\ ~is_connected
         THEN /\ last_op' = Op(SmartName(op), "error", FALSE, TRUE)
              /\ UNCHANGED <<command_counter, pending_commands>>
         ELSE /\ command_counter < MaxOps
              /\ outcome \in send_command_sync_outcomes
              /\ command_counter' = sync_counter(outcome)
              /\ pending_commands' = sync_pending(outcome)
              /\ last_op' = Op(SmartName(op),
                               IF op = "unlock" THEN movement_result(outcome)
                               ELSE smart_result(outcome),
                               outcome # "notopen",
                               ~completed_exchange(outcome))
    /\ UNCHANGED <<running, reader_pc, serial_open, is_connected_flag,
                   current_position, current_status, work_offsets, cn_pc,
                   status_data, active, outstanding, recovery>>
    /\ decoded' = NoDecode
    /\ UNCHANGED stages
    /\ UNCHANGED <<commOnly, timeoutVars, smartVars, analyzerVars,
                   readerVars, threadVars>>

\* ------------------------------------------------------ the reader thread
\* The reader removes the oldest request left in the table (its terminal
\* line arrived).
reader_completes ==
    /\ reader_alive /\ serial_open
    /\ pending_commands # {}
    /\ pending_commands' = completion_pending(pending_commands)
    /\ last_op' = Op("reader", "none", FALSE, FALSE)
    /\ UNCHANGED <<running, reader_pc, serial_open, is_connected_flag,
                   current_position, current_status, work_offsets, cn_pc,
                   status_data, active, outstanding, recovery,
                   command_counter>>
    /\ decoded' = NoDecode
    /\ UNCHANGED stages
    /\ UNCHANGED <<commOnly, timeoutVars, smartVars, analyzerVars,
                   readerVars, threadVars>>

\* The reader's loop condition fails (the port was closed under it).
reader_ends ==
    /\ reader_pc = "loop"
    /\ ~(running /\ serial_open)
    /\ reader_pc' = "dead"
    /\ last_op' = Op("reader", "none", FALSE, FALSE)
    /\ UNCHANGED <<running, serial_open, is_connected_flag, current_position,
                   current_status, work_offsets, cn_pc, status_data, active,
                   outstanding, recovery, command_counter, pending_commands>>
    /\ decoded' = NoDecode
    /\ UNCHANGED stages
    /\ UNCHANGED <<commOnly, timeoutVars, smartVars, analyzerVars,
                   readerVars, threadVars>>

\* The reader thread gives a status line to the installed status callback,
\* GRBLController._handle_status_update (communicator.py lines 156-160,
\* controller.py lines 277-300): the cache takes the report's position and
\* state, and POSITION_CHANGED / STATUS_CHANGED are emitted for what
\* changed.  A line the parser does not decode is dropped.
handle_status_update(line) ==
    /\ reader_alive /\ serial_open
    /\ LET report == parse_status_response(line)
           position == machine_position_of(report, work_offsets,
                                           current_position)
       IN IF report = NoReport
            THEN /\ decoded' = NoDecode
                 /\ UNCHANGED <<current_position, current_status>>
            ELSE /\ current_position' = position
                 /\ current_status' = report.state
                 /\ decoded' = Decode("callback", line, position,
                                      report.state, TRUE)
    /\ last_op' = Op("status_update", "none", FALSE, FALSE)
    /\ UNCHANGED <<running, reader_pc, serial_open, is_connected_flag,
                   work_offsets, cn_pc, status_data, active, outstanding,
                   recovery, command_counter, pending_commands>>
    /\ UNCHANGED stages
    /\ UNCHANGED <<commOnly, timeoutVars, smartVars, analyzerVars,
                   readerVars, threadVars>>

SyncOutcomes == {"ok", "error", "timeout_swept", "timeout_leaked", "transport",
                 "notopen"}

NextCtl ==
    \/ \E ok, re \in BOOLEAN : connect_open(ok, re)
    \/ \E q \in QueryOutcomes : connect_query1(q)
    \/ \E ok \in BOOLEAN : connect_resume(ok)
    \/ \E q \in QueryOutcomes : connect_requery_hold(q)
    \/ \E o \in SyncOutcomes : connect_unlock(o)
    \/ \E q \in QueryOutcomes : connect_requery_alarm(q)
    \/ \E o \in SyncOutcomes, found \in BOOLEAN : connect_offsets(o, found, Pos1)
    \/ \E q \in QueryOutcomes : connect_final(q)
    \/ disconnect
    \/ \E o \in SyncOutcomes : send_command(o)
    \/ \E ok \in BOOLEAN : send_command_async(ok)
    \/ \E ok \in BOOLEAN : send_realtime_command(ok)
    \/ \E q \in QueryOutcomes : get_position(q)
    \/ \E q \in QueryOutcomes : get_status(q)
    \/ \E op \in MovementOps, o \in SyncOutcomes : movement(op, o)
    \/ \E op \in MovementOps, o \in SyncOutcomes : smart_movement(op, o)
    \/ reader_completes
    \/ reader_ends

\* GRBLController.__init__ (lines 22-37): its own SerialConnection, not opened
\* yet (grbl_serial.py line 14).
InitController ==
    InitComm /\ serial_open = FALSE /\ InitCtl /\ InitQuery /\ InitTimeout
    /\ InitSmart /\ InitAnalyzer /\ InitReader /\ InitThreads

SpecCtl == InitController /\ [][NextCtl]_vars

\* The Controller with every kind of status line, connecting, polling and
\* receiving status reports.
CompletedOutcomes == {"ok", "error", "timeout_swept"}

NextStatus ==
    \/ \E ok, re \in BOOLEAN : connect_open(ok, re)
    \/ \E q \in StatusQueryOutcomes : connect_query1(q)
    \/ \E ok \in BOOLEAN : connect_resume(ok)
    \/ \E q \in StatusQueryOutcomes : connect_requery_hold(q)
    \/ \E o \in CompletedOutcomes : connect_unlock(o)
    \/ \E q \in StatusQueryOutcomes : connect_requery_alarm(q)
    \/ \E o \in CompletedOutcomes, found \in BOOLEAN :
          connect_offsets(o, found, Pos1)
    \/ \E q \in StatusQueryOutcomes : connect_final(q)
    \/ disconnect
    \/ \E q \in StatusQueryOutcomes : get_position(q)
    \/ \E q \in StatusQueryOutcomes : get_status(q)
    \/ \E l \in StatusLines : handle_status_update(l)
    \/ reader_ends

SpecStatus == InitController /\ [][NextStatus]_vars

\* ------------------------------------------------- SmartTimeoutController
\* The wrapper over a Controller whose exchanges are summarised by their
\* outcome; the Communicator under it is the subject of the specifications
\* above.
MaxCalls == 1

\* A cached position with two coordinates, as parse_status_response gives
\* for a report with two (parser.py lines 60-65).
PosShort == <<1, 2>>

CachedPositions == Positions \cup {PosShort}

\* The answers to '$$' tried: no setting, an ordinary value, a value float()
\* rejects before an ordinary one, a zero seek rate, and values too long for
\* a double.
SettingsAnswers ==
    {<<>>,
     <<SettingLine("setting", "$110", F(500000))>>,
     <<SettingLine("badnum", "$110", F(0)),
       SettingLine("setting", "$110", F(500000))>>,
     <<SettingLine("setting", "$25", F(0))>>,
     <<SettingLine("setting", "$130", Inf), SettingLine("setting", "$25", Inf)>>}

\* The explicit timeouts tried (seconds, in thousandths), and None.
TimeoutArgs == {NoTimeoutArg, F(0), F(7000)}

\* time.time() - start_time, in thousandths.
Elapsed == {500}

\* The command types and the movement time of the commands sent through the
\* wrapper.
SentCommandTypes == {"RAPID_MOVE", "HOMING", "STATUS_QUERY", "PARAMETERS"}

SentMoveTimes == {F(2000)}

\* GRBLController.send_command (controller.py lines 250-256) as the wrapper
\* sees it: an exception when not connected, else what send_command_sync
\* gives: lines with an ok, lines with an error:N, or an exception.
controller_send_outcomes ==
    IF is_connected THEN {"ok", "error", "raise"} ELSE {"raise"}

\* _get_current_position_4axis (lines 148-155).
get_current_position_4axis(pos) ==
    IF Len(pos) = 3 THEN <<pos[1], pos[2], pos[3], 0>>
    ELSE IF Len(pos) = 4 THEN pos
    ELSE <<0, 0, 0, 0>>

\* (mutant of chosen_timeout: the calculated timeout is always taken)
chosen_timeout_always_calculated(timeout_arg, calculated) == calculated

\* 'if timeout is None: timeout = calculate_timeout(...)' (lines 119-120,
\* 133-134).
chosen_timeout(timeout_arg, calculated) ==
    IF timeout_arg = NoTimeoutArg THEN calculated ELSE timeout_arg

\* 'accuracy' (calculator.py line 69) for a predicted time that is a float:
\* nan > 0 is False, and a division by inf gives 0.
float_accuracy(predicted, actual_time) ==
    IF predicted.k = "fin" THEN accuracy(predicted.v, actual_time)
    ELSE IF predicted.k = "inf" THEN 0
    ELSE 100

\* The command type the analyzer gives the command of a wrapper operation:
\* '$H', 'G0 X.. Y.. Z..', '$J=G91 ..' (lines 63, 77-79, 93).
command_type_of(op) ==
    CASE op = "home" -> "HOMING"
      [] op = "move_to" -> "RAPID_MOVE"
      [] OTHER -> "OTHER"

\* The _record_execution calls of one timed exchange: one in the try
\* branch, one in the except branch (lines 123-129).
made_records(outcome) == 1

\* (mutant of history_after_reconnect: a disconnect empties the history)
history_after_reconnect_cleared(history) == <<>>

\* timeout_history as connect, disconnect and _on_connected leave it (lines
\* 32-50 do not name it).
history_after_reconnect(history) == history

\* The timed exchange of send_command, home, move_to and jog_relative
\* (lines 61-129): the timeout is calculated unless given (an exception of
\* calculate_timeout leaves the call at once), the command is handed to the
\* Controller, the execution is recorded, and an exception of the Controller
\* is re-raised.
timed_exchange(op, command_type, move_time, timeout_arg, outcome, elapsed) ==
    LET calculated == calculate_timeout(command_type, config, move_time,
                                        base_safety_factor)
        consulted == timeout_arg = NoTimeoutArg
        timeout == chosen_timeout(timeout_arg, calculated)
        call == [NoCall EXCEPT !.op = op, !.command_type = command_type,
                               !.move_time = move_time,
                               !.timeout_arg = timeout_arg,
                               !.consulted = consulted,
                               !.position =
                                   IF consulted
                                   THEN get_current_position_4axis(
                                            current_position)
                                   ELSE <<>>]
    IN IF timeout = Raised
         THEN /\ last_call' = [call EXCEPT !.res = "raised"]
              /\ UNCHANGED <<timeout_history, recorded, base_safety_factor>>
         ELSE /\ outcome \in controller_send_outcomes
              /\ recorded < MaxCalls
              /\ recorded' = recorded + made_records(outcome)
              /\ timeout_history' =
                    IF made_records(outcome) = 1
                    THEN record_history(timeout_history,
                             [n |-> recorded + 1, predicted |-> timeout.v,
                              actual |-> elapsed,
                              accuracy |-> float_accuracy(timeout, elapsed)])
                    ELSE timeout_history
              /\ base_safety_factor' =
                    IF made_records(outcome) = 1
                    THEN adapted_factor(base_safety_factor, timeout_history')
                    ELSE base_safety_factor
              /\ last_call' =
                    [call EXCEPT !.forwarded = timeout, !.sent = TRUE,
                                 !.records = made_records(outcome),
                                 !.res = IF outcome = "raise" THEN "raised"
                                         ELSE IF op = "send_command"
                                         THEN "lines"
                                         ELSE smart_result(outcome)]

\* SmartTimeoutController.send_command (lines 117-129).
wrapper_send_command(command_type, move_time, timeout_arg, outcome, elapsed) ==
    /\ timed_exchange("send_command", command_type, move_time, timeout_arg,
                      outcome, elapsed)
    /\ UNCHANGED <<config, last_timeout, last_dump, config_initialized>>
    /\ UNCHANGED <<commVars, ctlVars, queryVars, analyzerVars, readerVars, threadVars>>

\* SmartTimeoutController.home / move_to / jog_relative (lines 61-103).
wrapper_movement(op, move_time, outcome, elapsed) ==
    /\ timed_exchange(op, command_type_of(op), move_time, NoTimeoutArg,
                      outcome, elapsed)
    /\ UNCHANGED <<config, last_timeout, last_dump, config_initialized>>
    /\ UNCHANGED <<commVars, ctlVars, queryVars, analyzerVars, readerVars, threadVars>>

\* SmartTimeoutController.send_command_async (lines 131-136): no record.
wrapper_send_command_async(command_type, move_time, timeout_arg) ==
    /\ LET calculated == calculate_timeout(command_type, config, move_time,
                                           base_safety_factor)
           consulted == timeout_arg = NoTimeoutArg
           timeout == chosen_timeout(timeout_arg, calculated)
           call == [NoCall EXCEPT !.op = "send_command_async",
                                  !.command_type = command_type,
                                  !.move_time = move_time,
                                  !.timeout_arg = timeout_arg,
                                  !.consulted = consulted,
                                  !.position =
                                      IF consulted
                                      THEN get_current_position_4axis(
                                               current_position)
                                      ELSE <<>>]
       IN last_call' =
             IF timeout = Raised THEN [call EXCEPT !.res = "raised"]
             ELSE [call EXCEPT !.forwarded = timeout, !.sent = TRUE,
                               !.res = IF is_connected THEN "future"
                                       ELSE "raised"]
    /\ UNCHANGED <<timeoutVars, config_initialized>>
    /\ UNCHANGED <<commVars, ctlVars, queryVars, analyzerVars, readerVars, threadVars>>

\* send_command('$$', timeout=5.0) raised.
QueryRaises == <<[form |-> "raise", id |-> "", value |-> [k |-> "fin", v |-> 0]]>>

\* What the '$$' query of _on_connected gives: the lines of an answer, or an
\* exception of send_command.
settings_query_outcomes(connected) ==
    IF connected THEN SettingsAnswers \cup {QueryRaises} ELSE {QueryRaises}

\* _on_connected (lines 32-43) on last_call: nothing unless the notification
\* reports success and no configuration is loaded; else the '$$' query, the
\* refresh of the configuration and the flag; an exception is logged.
on_connected(call, success, query) ==
    IF ~success \/ config_initialized
    THEN /\ last_call' = [call EXCEPT !.success = success,
                                      !.was_initialized = config_initialized]
         /\ UNCHANGED <<config, config_initialized>>
    ELSE IF query = QueryRaises
    THEN /\ last_call' = [call EXCEPT !.success = success,
                                      !.was_initialized = config_initialized,
                                      !.issued = TRUE,
                                      !.load = "raised"]
         /\ UNCHANGED <<config, config_initialized>>
    ELSE /\ config' = IF parse_settings(query).ok
                      THEN parse_settings(query).config
                      ELSE config
         /\ config_initialized' = TRUE
         /\ last_call' = [call EXCEPT !.success = success,
                                      !.was_initialized = config_initialized,
                                      !.issued = TRUE,
                                      !.load = IF parse_settings(query).ok
                                               THEN "loaded" ELSE "failed",
                                      !.config_kept = (config' = config)]

\* A CONNECTED notification reaches the wrapper's handler (line 29).
connected_notification(success, query) ==
    /\ query \in settings_query_outcomes(is_connected)
    /\ on_connected([NoCall EXCEPT !.op = "on_connected"], success, query)
    /\ timeout_history' = history_after_reconnect(timeout_history)
    /\ UNCHANGED <<base_safety_factor, recorded, last_timeout, last_dump>>
    /\ UNCHANGED <<commVars, ctlVars, queryVars, analyzerVars, readerVars, threadVars>>

\* SmartTimeoutController.connect (lines 45-46) over GRBLController.connect
\* (controller.py lines 41-128), called when no connect() is under way: the
\* Controller fails and cleans up, or caches what the device reported and
\* emits CONNECTED(True), which runs _on_connected before connect returns.
wrapper_connect(ok, position, status, offsets, query) ==
    /\ cn_pc = "idle"
    /\ IF ok
         THEN /\ query \in settings_query_outcomes(TRUE)
              /\ serial_open' = TRUE
              /\ is_connected_flag' = TRUE
              /\ current_position' = position
              /\ current_status' = status
              /\ work_offsets' = offsets
              /\ on_connected([NoCall EXCEPT !.op = "connect", !.res = "True"],
                              TRUE, query)
         ELSE /\ query = QueryRaises
              /\ serial_open' = FALSE
              /\ is_connected_flag' = FALSE
              /\ current_position' = Pos0
              /\ current_status' = "Disconnected"
              /\ work_offsets' = Pos0
              /\ last_call' = [NoCall EXCEPT !.op = "connect",
                                             !.res = "False",
                                             !.was_initialized =
                                                 config_initialized]
              /\ UNCHANGED <<config, config_initialized>>
    /\ timeout_history' = history_after_reconnect(timeout_history)
    /\ UNCHANGED <<base_safety_factor, recorded, last_timeout, last_dump>>
    /\ UNCHANGED <<running, pending_commands, command_counter, future, expired,
                   rx, responses_buffer, reader_pc, sweep_size, sweep_pos,
                   timed_out, snd_pc, snd_id, snd_sync, snd_res, stop_pc,
                   stop_size, stop_pos, devq, answer, completed,
                   sync_timed_out, pre_stop, stop_called, stop_raised>>
    /\ UNCHANGED <<cn_pc, status_data, last_op, active, outstanding, recovery,
                   decoded, stages, queryVars, analyzerVars, readerVars,
                   threadVars>>

\* SmartTimeoutController.disconnect (lines 48-50): the flag is cleared, then
\* GRBLController.disconnect (controller.py lines 131-140) cleans up; when
\* stop() raises under the cleanup, the caches are not reset and disconnect
\* raises.
wrapper_disconnect(stopped) ==
    /\ cn_pc = "idle"
    /\ config_initialized' = FALSE
    /\ is_connected_flag' = FALSE
    /\ IF stopped
         THEN /\ serial_open' = FALSE
              /\ current_position' = Pos0
              /\ current_status' = "Disconnected"
              /\ work_offsets' = Pos0
         ELSE /\ is_connected
              /\ UNCHANGED <<serial_open, current_position, current_status,
                             work_offsets>>
    /\ last_call' = [NoCall EXCEPT !.op = "disconnect",
                                   !.res = IF stopped THEN "returned"
                                           ELSE "raised"]
    /\ timeout_history' = history_after_reconnect(timeout_history)
    /\ UNCHANGED <<config, base_safety_factor, recorded, last_timeout,
                   last_dump>>
    /\ UNCHANGED <<running, pending_commands, command_counter, future, expired,
                   rx, responses_buffer, reader_pc, sweep_size, sweep_pos,
                   timed_out, snd_pc, snd_id, snd_sync, snd_res, stop_pc,
                   stop_size, stop_pos, devq, answer, completed,
                   sync_timed_out, pre_stop, stop_called, stop_raised>>
    /\ UNCHANGED <<cn_pc, status_data, last_op, active, outstanding, recovery,
                   decoded, stages, queryVars, analyzerVars, readerVars,
                   threadVars>>

\* SmartTimeoutController.reset_timeout_statistics (lines 144-146).
reset_timeout_statistics ==
    /\ timeout_history' = <<>>
    /\ last_call' = [NoCall EXCEPT !.op = "reset_timeout_statistics"]
    /\ UNCHANGED <<config, base_safety_factor, recorded, last_timeout,
                   last_dump, config_initialized>>
    /\ UNCHANGED <<commVars, ctlVars, queryVars, analyzerVars, readerVars, threadVars>>

NextSmart ==
    \/ \E ok \in BOOLEAN, position \in CachedPositions,
          status \in {"Idle"}, offsets \in {Pos1},
          query \in SettingsAnswers \cup {QueryRaises} :
          wrapper_connect(ok, position, status, offsets, query)
    \/ \E stopped \in BOOLEAN : wrapper_disconnect(stopped)
    \/ \E success \in BOOLEAN, query \in SettingsAnswers \cup {QueryRaises} :
          connected_notification(success, query)
    \/ \E t \in SentCommandTypes, m \in SentMoveTimes, a \in TimeoutArgs,
          o \in {"ok", "error", "raise"}, e \in Elapsed :
          wrapper_send_command(t, m, a, o, e)
    \/ \E t \in SentCommandTypes, m \in SentMoveTimes, a \in TimeoutArgs :
          wrapper_send_command_async(t, m, a)
    \/ \E op \in {"home", "move_to", "jog_relative"}, m \in SentMoveTimes,
          o \in {"ok", "error", "raise"}, e \in Elapsed :
          wrapper_movement(op, m, o, e)
    \/ reset_timeout_statistics

\* The wrapper over a Controller that connects, exchanges and disconnects.
SpecSmart == InitController /\ [][NextSmart]_vars

\* ----------------------------------------------------------- CommandAnalyzer
\* Words a command carries after its G word.
MaxWords == 2

\* A word is an address letter immediately followed by a number, which is
\* what position_pattern and feed_pattern match (command_analyzer.py lines
\* 42-43); parse_command upper-cases the command first (line 49).
AxisLetters == <<"X", "Y", "Z", "A">>

WordLetters == {"X", "Y", "Z", "A", "F"}

WordValues == {3, -2}

Words == [letter : WordLetters, value : WordValues]

WordLists == UNION {[1..n -> Words] : n \in 0..MaxWords}

MotionGcodes == {"G0", "G1", "G2", "G3"}

\* The components a caller-supplied current position takes.
AxisValues == {0, 7}

Positions4 == [1..4 -> AxisValues]

\* (mutant of initial_target: the target starts at the origin)
initial_target_origin(current_pos) == <<0, 0, 0, 0>>

\* target_pos = list(current_pos) (lines 100 and 131).
initial_target(current_pos) == current_pos

\* One match of position_pattern.finditer (lines 104-115 and 137-148).
set_axis(target_pos, word) ==
    IF word.letter = "X" THEN [target_pos EXCEPT ![1] = word.value]
    ELSE IF word.letter = "Y" THEN [target_pos EXCEPT ![2] = word.value]
    ELSE IF word.letter = "Z" THEN [target_pos EXCEPT ![3] = word.value]
    ELSE IF word.letter = "A" THEN [target_pos EXCEPT ![4] = word.value]
    ELSE target_pos

\* The loop over the matches, in the order they stand in the command.
RECURSIVE set_axes(_, _)
set_axes(target_pos, words) ==
    IF words = <<>> THEN target_pos
    ELSE set_axes(set_axis(target_pos, Head(words)), Tail(words))

\* CommandAnalyzer._parse_movement_command (lines 98-127).
parse_movement_command(words, cmd_type, current_pos) ==
    [command_type |-> cmd_type,
     target_position |-> set_axes(initial_target(current_pos), words)]

\* CommandAnalyzer._parse_arc_command (lines 129-178).
parse_arc_command(words, is_clockwise, current_pos) ==
    [command_type |-> "CIRCULAR_MOVE",
     target_position |-> set_axes(initial_target(current_pos), words)]

\* CommandAnalyzer.parse_command for a command that begins with a motion G
\* word (lines 83-90).
parse_command(gcode, words, current_pos4) ==
    IF gcode = "G0"
      THEN parse_movement_command(words, "RAPID_MOVE", current_pos4)
    ELSE IF gcode = "G1"
      THEN parse_movement_command(words, "LINEAR_MOVE", current_pos4)
    ELSE IF gcode = "G2"
      THEN parse_arc_command(words, TRUE, current_pos4)
    ELSE parse_arc_command(words, FALSE, current_pos4)

\* One parse_command call; a behaviour makes one call of the analyzer or of
\* a distance function.
parse_command_call ==
    /\ last_parse = NoParse
    /\ last_distance = NoDistance
    /\ \E gcode \in MotionGcodes, words \in WordLists, pos \in Positions4 :
          last_parse' =
            [gcode |-> gcode, words |-> words, current_pos |-> pos,
             target |-> parse_command(gcode, words, pos).target_position]
    /\ UNCHANGED last_distance
    /\ UNCHANGED <<commVars, ctlVars, queryVars, timeoutVars, smartVars,
                   readerVars, threadVars>>

\* ------------------------------------------- the rotary distance of axis A
\* Angles are in ten-thousandths of a degree.
Degree == 10000

FullTurn == 360 * Degree

\* The tolerance 0.001 of movement_calculator.py line 97.
FullTurnTolerance == 10

\* The A coordinates of the two positions.
Angles == {0, 10 * Degree, 350 * Degree, FullTurn, FullTurn - 5,
           400 * Degree, -10 * Degree}

Abs(x) == IF x < 0 THEN -x ELSE x

MinOf(x, y) == IF x <= y THEN x ELSE y

MaxOf(x, y) == IF x >= y THEN x ELSE y

\* MovementCalculator._calculate_axis_distances, the A component (lines
\* 92-102).
axis_a_distance(a, b, has_rotary_a) ==
    LET a_diff == Abs(b - a)
    IN IF has_rotary_a
         THEN IF Abs(a_diff - FullTurn) < FullTurnTolerance
                THEN FullTurn
                ELSE MinOf(a_diff, FullTurn - a_diff)
         ELSE a_diff

\* CommandAnalyzer.calculate_4d_distance for two positions with the same X, Y
\* and Z (lines 184-202): linear_distance is 0 and the result is
\* max(0, a_distance).
calculate_4d_distance(a, b, has_rotary_a) ==
    LET a_diff == Abs(b - a)
        a_distance == IF has_rotary_a THEN MinOf(a_diff, FullTurn - a_diff)
                      ELSE a_diff
    IN MaxOf(0, a_distance)

\* One _calculate_axis_distances call.
axis_distances_call ==
    /\ last_parse = NoParse
    /\ last_distance = NoDistance
    /\ \E a \in Angles, b \in Angles, r \in BOOLEAN :
          last_distance' = [by |-> "_calculate_axis_distances",
                            has_rotary |-> r, a |-> a, b |-> b,
                            a_distance |-> axis_a_distance(a, b, r)]
    /\ UNCHANGED last_parse
    /\ UNCHANGED <<commVars, ctlVars, queryVars, timeoutVars, smartVars,
                   readerVars, threadVars>>

\* One calculate_4d_distance call.
distance_4d_call ==
    /\ last_parse = NoParse
    /\ last_distance = NoDistance
    /\ \E a \in Angles, b \in Angles, r \in BOOLEAN :
          last_distance' = [by |-> "calculate_4d_distance",
                            has_rotary |-> r, a |-> a, b |-> b,
                            a_distance |-> calculate_4d_distance(a, b, r)]
    /\ UNCHANGED last_parse
    /\ UNCHANGED <<commVars, ctlVars, queryVars, timeoutVars, smartVars,
                   readerVars, threadVars>>

\* MovementCalculator._calculate_arc_movement_time, the A distance (lines
\* 135-139).
arc_a_distance(a, b, has_rotary_a) ==
    LET a_distance == Abs(b - a)
    IN IF has_rotary_a THEN MinOf(a_distance, FullTurn - a_distance)
       ELSE a_distance

\* One _calculate_arc_movement_time call.
arc_distance_call ==
    /\ last_parse = NoParse
    /\ last_distance = NoDistance
    /\ \E a \in Angles, b \in Angles, r \in BOOLEAN :
          last_distance' = [by |-> "_calculate_arc_movement_time",
                            has_rotary |-> r, a |-> a, b |-> b,
                            a_distance |-> arc_a_distance(a, b, r)]
    /\ UNCHANGED last_parse
    /\ UNCHANGED <<commVars, ctlVars, queryVars, timeoutVars, smartVars,
                   readerVars, threadVars>>

NextAnalyzer ==
    \/ parse_command_call
    \/ axis_distances_call
    \/ distance_4d_call
    \/ arc_distance_call

\* The analyzer and the distance functions, each applied once to an input.
SpecAnalyzer == Init /\ [][NextAnalyzer]_vars

\* --------------------------- several caller threads in send_command_async
\* GRBLCommunicator._get_next_command_id runs "self._command_counter += 1"
\* and "return self._command_counter" (lines 219-220) with no lock: the
\* load, the store and the second load are separate steps of the calling
\* thread, and another caller thread can run between any two of them.
id_load(t) ==
    /\ reg_pc[t] = "idle"
    /\ serial_open
    /\ command_counter < MaxCmds
    /\ reg_seen' = [reg_seen EXCEPT ![t] = command_counter]
    /\ reg_pc' = [reg_pc EXCEPT ![t] = "store"]
    /\ UNCHANGED <<reg_id, issued, extra_readers>>
    /\ UNCHANGED <<commVars, ctlVars, queryVars, timeoutVars, smartVars,
                   analyzerVars, readerVars>>

\* The store of "+= 1" (line 219).
id_store(t) ==
    /\ reg_pc[t] = "store"
    /\ command_counter' = reg_seen[t] + 1
    /\ reg_pc' = [reg_pc EXCEPT ![t] = "return"]
    /\ UNCHANGED <<reg_seen, reg_id, issued, extra_readers>>
    /\ UNCHANGED <<running, serial_open, pending_commands, future, expired, rx,
                   responses_buffer, reader_pc, sweep_size, sweep_pos,
                   timed_out, snd_pc, snd_id, snd_sync, snd_res, stop_pc,
                   stop_size, stop_pos, devq, answer, completed,
                   sync_timed_out, pre_stop, stop_called, stop_raised>>
    /\ UNCHANGED <<ctlVars, queryVars, timeoutVars, smartVars, analyzerVars,
                   readerVars>>

\* "return self._command_counter" (line 220).
id_return(t) ==
    /\ reg_pc[t] = "return"
    /\ reg_id' = [reg_id EXCEPT ![t] = command_counter]
    /\ issued' = Append(issued, command_counter)
    /\ reg_pc' = [reg_pc EXCEPT ![t] = "insert"]
    /\ UNCHANGED <<reg_seen, extra_readers>>
    /\ UNCHANGED <<commVars, ctlVars, queryVars, timeoutVars, smartVars,
                   analyzerVars, readerVars>>

\* self._pending_commands[command_id] = {...} (lines 74-78).
table_insert(P, id) == P \cup {id}

\* The insert of send_command_async (lines 74-78) by caller t: the entry of
\* that id, whoever registered it, is replaced by the new request.
caller_insert(t) ==
    /\ reg_pc[t] = "insert"
    /\ pending_commands' = table_insert(pending_commands, reg_id[t])
    /\ future' = [future EXCEPT ![reg_id[t]] = NewFuture]
    /\ reg_pc' = [reg_pc EXCEPT ![t] = "idle"]
    /\ UNCHANGED <<reg_seen, reg_id, issued, extra_readers>>
    /\ UNCHANGED <<running, serial_open, command_counter, expired, rx,
                   responses_buffer, reader_pc, sweep_size, sweep_pos,
                   timed_out, snd_pc, snd_id, snd_sync, snd_res, stop_pc,
                   stop_size, stop_pos, devq, answer, completed,
                   sync_timed_out, pre_stop, stop_called, stop_raised>>
    /\ UNCHANGED <<ctlVars, queryVars, timeoutVars, smartVars, analyzerVars,
                   readerVars>>

NextIds ==
    \/ \E t \in Callers : id_load(t)
    \/ \E t \in Callers : id_store(t)
    \/ \E t \in Callers : id_return(t)
    \/ \E t \in Callers : caller_insert(t)

\* Caller threads registering requests concurrently.
SpecIds == Init /\ [][NextIds]_vars

\* ------------------------------------------ a reader that outlives stop()
\* self._reader_thread.join(timeout=1.0) gives up (lines 52-54): the reader
\* has not come back to its loop condition within the second (it is inside
\* a callback, or waits for the port), and stop() returns with it alive.
stop_join_timeout ==
    /\ stop_pc = "join"
    /\ reader_pc # "dead"
    /\ stop_pc' = "idle"
    /\ UNCHANGED <<running, serial_open, pending_commands, command_counter,
                   future, expired, rx, responses_buffer, reader_pc,
                   sweep_size, sweep_pos, timed_out, snd_pc, snd_id, snd_sync,
                   snd_res, stop_size, stop_pos, devq, answer, completed,
                   sync_timed_out, pre_stop, stop_called, stop_raised>>
    /\ UNCHANGED <<ctlVars, queryVars, timeoutVars, smartVars, analyzerVars,
                   readerVars, threadVars>>

\* start() after such a stop() (lines 35-40): _running is False, so the flag
\* is set and a new reader thread is spawned; the reader left over finds
\* _running true at its next test and goes on.  From here reader_pc follows
\* the new thread, whose responses_buffer is empty, and the thread left over
\* is counted in extra_readers (its further steps are not followed).
start_beside ==
    /\ stop_pc = "idle"
    /\ ~running
    /\ reader_pc = "loop"
    /\ extra_readers = 0
    /\ running' = TRUE
    /\ extra_readers' = 1
    /\ responses_buffer' = <<>>
    /\ UNCHANGED <<serial_open, pending_commands, command_counter, future,
                   expired, rx, reader_pc, sweep_size, sweep_pos, timed_out,
                   snd_pc, snd_id, snd_sync, snd_res, stop_pc, stop_size,
                   stop_pos, devq, answer, completed, sync_timed_out, pre_stop,
                   stop_called, stop_raised>>
    /\ UNCHANGED <<reg_pc, reg_seen, reg_id, issued>>
    /\ UNCHANGED <<ctlVars, queryVars, timeoutVars, smartVars, analyzerVars,
                   readerVars>>

\* The thread left over finds the loop condition false (line 139) and ends.
extra_reader_exit ==
    /\ extra_readers > 0
    /\ ~(running /\ serial_open)
    /\ extra_readers' = 0
    /\ UNCHANGED <<reg_pc, reg_seen, reg_id, issued>>
    /\ UNCHANGED <<commVars, ctlVars, queryVars, timeoutVars, smartVars,
                   analyzerVars, readerVars>>

NextReaders ==
    \/ start
    \/ \E k \in UnsolicitedKinds : device_unsolicited(k)
    \/ reader_line
    \/ reader_exit
    \/ stop_begin
    \/ stop_next
    \/ stop_clear
    \/ stop_join
    \/ stop_join_timeout
    \/ start_beside
    \/ extra_reader_exit

\* start() and stop() called again and again, the reader slow or not.
SpecReaders == Init /\ [][NextReaders]_vars

\* ===================================================================== claims

\* No request has been failed by the timeout sweep.
NoTimeoutYet == \A i \in Ids : future[i].st # "timeout"

\* Every request completed with lines got exactly the lines the device sent
\* in answer to it, its terminal line last.
OwnLines == \A i \in Ids : future[i].st = "result" => future[i].lines = answer[i]

\* The reader completed the requests in registration (id) order.
InOrder == \A m, n \in 1..Len(completed) : m < n => completed[m] < completed[n]

\* C1 - FIFO correlation: as long as no request has timed out, every request
\* the reader completed holds exactly the ordinary lines the device sent
\* since the previous terminal line followed by its own terminal line, it has
\* left the table, and the requests were completed in registration order.
C1_FifoCorrelation ==
    NoTimeoutYet =>
        /\ OwnLines
        /\ InOrder
        /\ \A i \in Ids : future[i].st = "result" => i \notin pending_commands

\* C1 witness: two requests were pending together (the second was registered
\* before the first was answered is the only way both can be complete with
\* the first one's answer holding an ordinary line) and both are completed.
C1_Witness ==
    /\ NoTimeoutYet
    /\ completed = <<1, 2>>
    /\ Len(future[1].lines) = 2
    /\ future[2].st = "result"

\* C2 - timeout isolation, as claimed: a request failed with a timeout has
\* left the table, and every request completed with lines (whether or not an
\* earlier request timed out) holds exactly its own lines.
C2_TimeoutIsolation ==
    /\ \A i \in Ids : future[i].st = "timeout" => i \notin pending_commands
    /\ OwnLines

\* C3 - no leak on a synchronous timeout, as claimed: a request for which
\* send_command_sync reported a timeout is not in the pending table, at
\* that moment or later.
C3_NoLeakOnSyncTimeout == sync_timed_out \cap pending_commands = {}

\* C4 - stop(), as claimed: whenever a stop() call ends, the table is empty,
\* every request that was pending when it began is fulfilled, the call did
\* not raise and the reader thread has ended.
C4_StopFailsAll ==
    [][(stop_pc # "idle" /\ stop_pc' = "idle") =>
          /\ pending_commands' = {}
          /\ \A i \in pre_stop' : done(future'[i])
          /\ ~stop_raised'
          /\ reader_pc' = "dead"]_vars

\* ------------------------------------------------------------ Controller
ConnectReturnedFalse == last_op.op = "connect" /\ last_op.res = "False"

ConnectReturnedTrue == last_op.op = "connect" /\ last_op.res = "True"

\* C5 - a failed connect, as claimed: after connect() returned False,
\* is_connected() is False, the Communicator is stopped with an empty table,
\* the transport is closed and the cached position, status and work offsets
\* are at their defaults.
C5_FailedConnectClean ==
    ConnectReturnedFalse =>
        /\ ~is_connected
        /\ ~running
        /\ pending_commands = {}
        /\ ~serial_open
        /\ current_position = Pos0
        /\ current_status \in {"Unknown", "Disconnected"}
        /\ work_offsets = Pos0

\* C6 - no partially initialised connection, as claimed: while a connect()
\* call has stages left, or after it failed, is_connected() is False (and
\* so the gated operations are refused).
C6_NoPartialConnected ==
    (cn_pc # "idle" \/ ConnectReturnedFalse) => ~is_connected

MovementNames == {"home", "move_to", "jog_relative", "unlock"}

RaisingNames == {"smart_home", "smart_move_to", "smart_jog_relative"}

GatedNames == {"send_command", "send_command_async", "send_realtime_command",
               "get_position", "get_status"}

\* C9 - operations without a connection: a gated operation called while
\* is_connected() is False fails with an error (get_status returns
\* "Disconnected"), writes nothing, and leaves the pending table, the
\* command counter and the cached position, status and offsets unchanged.
C9_RefusedWhenDisconnected ==
    [][(last_op'.op \in GatedNames /\ ~last_op'.conn) =>
          /\ last_op'.res = IF last_op'.op = "get_status" THEN "Disconnected"
                            ELSE "error"
          /\ ~last_op'.wrote
          /\ UNCHANGED <<pending_commands, command_counter, current_position,
                         current_status, work_offsets>>]_vars

C9_Witness ==
    /\ last_op.op = "send_command"
    /\ ~last_op.conn
    /\ serial_open
    /\ last_op.res = "error"

\* C10 - disconnect(), as claimed: it emits DISCONNECTED exactly when a
\* connection was active at the call; an emitted DISCONNECTED follows a
\* CONNECTED with no DISCONNECTED in between; a disconnect() right after a
\* disconnect() emits nothing.
C10_DisconnectNotification ==
    last_op.op = "disconnect" =>
        /\ last_op.res = "emitted" <=> last_op.act
        /\ last_op.res = "emitted" => last_op.outst
        /\ last_op.prev => last_op.res # "emitted"

\* ---------------------------------------------------------- status reports
\* C11 - change notifications, as claimed: a step that decoded a status
\* report emitted POSITION_CHANGED exactly when the cached position changed
\* and STATUS_CHANGED exactly when the cached status changed, whether the
\* status callback, get_position or get_status consumed the report.
C11_ChangeNotified ==
    decoded.by \in {"callback", "get_position", "get_status"} =>
        /\ decoded.pos_event <=> decoded.pos_changed
        /\ decoded.status_event <=> decoded.status_changed

\* C12 - machine position from a work position, as claimed: after a report
\* with a work position and no machine position was decoded by a consumer
\* of positions, the cached position is work position + work offsets.
C12_WPosPlusOffset ==
    (/\ decoded.by \in {"callback", "get_position", "connect_final"}
     /\ decoded.line.mpos = NoPos
     /\ decoded.line.wpos # NoPos)
        => current_position = Add3(decoded.line.wpos, work_offsets)

\* C13 - cached sub-status, as claimed: right after a status report was
\* decoded while connected, the cached status is the report's state label,
\* whichever operation consumed it.
C13_StatusIsLastReport ==
    (decoded.by # "none" /\ is_connected)
        => current_status = decoded.line.state

\* ------------------------------------------- realtime and query_status
\* C14 - send_realtime_command bypasses the pending table: a call leaves the
\* table, the id counter, the futures and their deadlines, the reader's
\* response buffer, both callback slots and the waiting query_status calls
\* as they are; all it does is write its bytes (or raise).
C14_RealtimeBypass ==
    [][rt_parity' # rt_parity =>
          /\ UNCHANGED <<pending_commands, command_counter, future, expired,
                         responses_buffer, status_callback, async_callback,
                         qs_pc, qs_got>>
          /\ tx' \in {tx, "realtime"}]_vars

C14_Witness ==
    /\ rt_parity = 1
    /\ tx = "realtime"
    /\ pending_commands # {}
    /\ status_callback # ControllerCallback

\* C15 - query_status restores the callback, as claimed: once every
\* query_status call that was started has returned, the installed status
\* callback is the one installed before the calls began.
C15_CallbackRestored ==
    (\A t \in Callers : qs_pc[t] = "idle")
        => status_callback = ControllerCallback

\* C16 - the safety clamp, as claimed: every timeout calculate_timeout
\* returns, for every command type and every configuration loaded from a
\* settings dump, is a number in [minimum_timeout, maximum_timeout].
C16_TimeoutClamped ==
    (last_timeout.command_type # "none" /\ last_timeout.result # Raised)
        => /\ last_timeout.result.k = "fin"
           /\ last_timeout.result.v >= minimum_timeout.v
           /\ last_timeout.result.v <= maximum_timeout.v

\* C17 - calculate_timeout gives 2.0, 5.0, 3.0 and 1.0 seconds for a status
\* query, a settings query, a parameters query and a realtime command,
\* whatever the configuration, the safety factor and the history; for every
\* other command type it gives the safety margin applied to the movement
\* calculation, or the error that calculation raised.
C17_FixedTimeouts ==
    /\ last_timeout.command_type = "STATUS_QUERY"
          => last_timeout.result = F(2000)
    /\ last_timeout.command_type = "SETTINGS"
          => last_timeout.result = F(5000)
    /\ last_timeout.command_type = "PARAMETERS"
          => last_timeout.result = F(3000)
    /\ last_timeout.command_type = "REALTIME"
          => last_timeout.result = F(1000)
    /\ last_timeout.command_type \in
          {"RAPID_MOVE", "LINEAR_MOVE", "CIRCULAR_MOVE", "HOMING", "RESET",
           "OTHER"}
          => last_timeout.result =
               IF calculate_movement_time(last_timeout.command_type, config,
                                          last_timeout.move_time) = Raised
               THEN Raised
               ELSE apply_safety_margin(
                        calculate_movement_time(last_timeout.command_type,
                                                config, last_timeout.move_time),
                        last_timeout.command_type, base_safety_factor)

\* A parameters query timed at 3.0 seconds under a configuration that is not
\* the default one, a safety factor that has been adapted and a history of
\* executions.
C17_Witness ==
    /\ last_timeout.command_type = "PARAMETERS"
    /\ last_timeout.result = F(3000)
    /\ config # DefaultConfig
    /\ base_safety_factor # InitialSafetyFactor
    /\ Len(timeout_history) >= 10

\* C18 - the adaptive scaling rule: a record_execution_time call leaves the
\* safety factor unchanged while the history has fewer than 10 records;
\* otherwise, with m the mean accuracy of the 10 most recent records, it
\* multiplies the factor by 0.95 if m > 1.2, by 1.05 if m < 0.8, and leaves
\* it unchanged otherwise; after 15 records of accuracy 1.4 the factor is
\* below its initial value.
C18_AdaptiveScaling ==
    [][recorded' = recorded + 1 =>
          /\ Len(timeout_history') < 10
                => base_safety_factor' = base_safety_factor
          /\ (Len(timeout_history') >= 10
                 /\ recent_accuracy_sum(timeout_history', 10) > 10 * 120)
                => base_safety_factor' = (base_safety_factor * 95) \div 100
          /\ (Len(timeout_history') >= 10
                 /\ recent_accuracy_sum(timeout_history', 10) < 10 * 80)
                => base_safety_factor' = (base_safety_factor * 105) \div 100
          /\ (Len(timeout_history') >= 10
                 /\ recent_accuracy_sum(timeout_history', 10) >= 10 * 80
                 /\ recent_accuracy_sum(timeout_history', 10) =< 10 * 120)
                => base_safety_factor' = base_safety_factor
          /\ (recorded' = 15
                 /\ \A i \in 1..Len(timeout_history') :
                        timeout_history'[i].accuracy = 140)
                => /\ base_safety_factor' < base_safety_factor
                   /\ base_safety_factor' < InitialSafetyFactor]_vars

\* 15 records of accuracy 1.4, and a safety factor below its initial value.
C18_Witness ==
    /\ recorded = 15
    /\ \A i \in 1..Len(timeout_history) : timeout_history[i].accuracy = 140
    /\ base_safety_factor < InitialSafetyFactor

\* C19 - the bounded history: after n record_execution_time calls the history
\* holds min(n, 100) records, and they are the most recent ones in the order
\* they were recorded.
C19_HistoryBounded ==
    /\ Len(timeout_history) =< 100
    /\ Len(timeout_history) = IF recorded < 100 THEN recorded ELSE 100
    /\ \A i \in 1..Len(timeout_history) :
          timeout_history[i].n = recorded - Len(timeout_history) + i

\* 102 executions recorded: the history holds the last 100 of them.
C19_Witness ==
    /\ recorded = 102
    /\ Len(timeout_history) = 100
    /\ timeout_history[1].n = 3
    /\ timeout_history[100].n = 102

\* A line of a dump that is a setting with a number for its value.
IsSetting(line) == line.form = "setting"

\* C20 - the machine-config refresh, as claimed: after
\* update_machine_config every field whose recognised id occurs in a
\* well-formed line of the dump holds the last value given for it and every
\* other field holds its default, whatever the configuration was before and
\* whatever other lines the dump has.
C20_ConfigReplaced ==
    last_dump # NoDump
        => config = parse_settings(SelectSeq(last_dump, IsSetting)).config

\* The first components of a cached position, with zeros for those it lacks.
Pad4(pos) == [i \in 1..4 |-> IF i =< Len(pos) THEN pos[i] ELSE 0]

\* C21 - as claimed: send_command and send_command_async of the wrapper
\* forward an explicit timeout as it is, without a calculate_timeout call;
\* with timeout None they forward calculate_timeout(command, p), p being the
\* cached position padded with zeros to 4 axes.
C21_TimeoutForwarded ==
    last_call.op \in {"send_command", "send_command_async"} =>
        IF last_call.timeout_arg # NoTimeoutArg
        THEN /\ ~last_call.consulted
             /\ last_call.sent
             /\ last_call.forwarded = last_call.timeout_arg
        ELSE /\ last_call.consulted
             /\ last_call.position = Pad4(current_position)
             /\ last_call.sent =>
                   last_call.forwarded =
                       calculate_timeout(last_call.command_type, config,
                                         last_call.move_time,
                                         base_safety_factor)

\* C21 (amended) - send_command and send_command_async of the wrapper
\* forward an explicit timeout as it is, without a calculate_timeout call;
\* with timeout None they forward calculate_timeout(command, p), p being the
\* cached position with a zero rotary component when it has 3 components,
\* the cached position when it has 4, and the origin otherwise.
C21_TimeoutForwardedOrOrigin ==
    last_call.op \in {"send_command", "send_command_async"} =>
        IF last_call.timeout_arg # NoTimeoutArg
        THEN /\ ~last_call.consulted
             /\ last_call.sent
             /\ last_call.forwarded = last_call.timeout_arg
        ELSE /\ last_call.consulted
             /\ last_call.position =
                   IF Len(current_position) \in {3, 4}
                   THEN Pad4(current_position) ELSE <<0, 0, 0, 0>>
             /\ last_call.sent =>
                   last_call.forwarded =
                       calculate_timeout(last_call.command_type, config,
                                         last_call.move_time,
                                         base_safety_factor)

\* send_command with timeout None at the cached position (1, 2, 3): the
\* timeout for (1, 2, 3, 0) was forwarded.
C21_Witness ==
    /\ last_call.op = "send_command"
    /\ last_call.timeout_arg = NoTimeoutArg
    /\ current_position = Pos1
    /\ last_call.position = <<1, 2, 3, 0>>
    /\ last_call.sent
    /\ last_call.forwarded.k = "fin"

\* C22 - as claimed: every call of the wrapper's send_command, home, move_to
\* or jog_relative makes exactly one record_execution_time call, and a call
\* whose send raised ends by raising.
C22_OneRecordPerCall ==
    last_call.op \in {"send_command", "home", "move_to", "jog_relative"} =>
        last_call.records = 1

\* C23 - the auto-configuration, as claimed: a connected notification issues
\* the '$$' query exactly when it reports success and no configuration is
\* loaded; the flag becomes true only by a successful load; a query or a
\* load that failed leaves the flag and the configuration as they were; the
\* Controller's successful connect stays successful; disconnect clears the
\* flag.
C23_AutoConfiguration ==
    /\ last_call.op \in {"connect", "on_connected"} =>
          /\ last_call.issued <=>
                (last_call.success /\ ~last_call.was_initialized)
          /\ (config_initialized /\ ~last_call.was_initialized)
                => last_call.load = "loaded"
          /\ last_call.load \in {"raised", "failed"}
                => /\ config_initialized = last_call.was_initialized
                   /\ last_call.config_kept
          /\ (last_call.op = "connect" /\ last_call.success)
                => last_call.res = "True"
    /\ last_call.op = "disconnect" => ~config_initialized

\* C24 - as claimed: after disconnect() has returned the cached position and
\* the work offset are [0,0,0], the cached status is 'Disconnected' and the
\* configuration used for the timeouts is the default one.
C24_DisconnectResets ==
    (last_call.op = "disconnect" /\ last_call.res = "returned") =>
        /\ current_position = Pos0
        /\ work_offsets = Pos0
        /\ current_status = "Disconnected"
        /\ config = DefaultConfig

\* C25 - connect, disconnect and the auto-configuration leave the history
\* and the safety factor as they are, and the history loses records only by
\* reset_timeout_statistics (or by the eviction of a full history).
C25_HistorySurvives ==
    [][/\ last_call'.op \in {"connect", "disconnect", "on_connected"}
            => /\ timeout_history' = timeout_history
               /\ base_safety_factor' = base_safety_factor
       /\ Len(timeout_history') < Len(timeout_history)
            => last_call'.op = "reset_timeout_statistics"]_vars

\* A successful connect that loaded a configuration while the history held
\* a record.
C25_Witness ==
    /\ last_call.op = "connect"
    /\ last_call.res = "True"
    /\ last_call.load = "loaded"
    /\ config # DefaultConfig
    /\ Len(timeout_history) = 1

\* The positions in words of the words that address the given axis letter.
GivenAt(words, letter) == {k \in 1..Len(words) : words[k].letter = letter}

RotaryDistance(a, b) ==
    IF Abs(b - a) = FullTurn THEN FullTurn
    ELSE MinOf(Abs(b - a), FullTurn - Abs(b - a))

\* C27: with a rotary axis A the distance between a and b is
\* min(|b-a|, 360-|b-a|), except that a difference of exactly 360 stays 360.
C27_RotaryDistance ==
    (last_distance.by # "none" /\ last_distance.has_rotary) =>
        last_distance.a_distance = RotaryDistance(last_distance.a, last_distance.b)

\* The types parse_command gives the motion commands G0, G1, G2 and G3.
MotionTypes == {"RAPID_MOVE", "LINEAR_MOVE", "CIRCULAR_MOVE"}

\* The timeout of the last call before the clamp, and what the same call
\* gives under the initial safety factor.
Unclamped ==
    FMul(last_timeout.move_time,
         command_factor(last_timeout.command_type, base_safety_factor))

InitialFactorTimeout ==
    calculate_timeout(last_timeout.command_type, config, last_timeout.move_time,
                      InitialSafetyFactor)

\* C28: once record_execution_time has shrunk (grown) the global safety
\* factor, the timeout calculate_timeout returns for a motion command is
\* smaller (greater) than under the initial factor, whenever its unclamped
\* value lies strictly inside the clamp range.
C28_AdaptiveScalingApplied ==
    (/\ last_timeout.command_type \in MotionTypes
     /\ Unclamped.k = "fin"
     /\ Unclamped.v > minimum_timeout.v
     /\ Unclamped.v < maximum_timeout.v)
    => /\ base_safety_factor < InitialSafetyFactor
            => last_timeout.result.v < InitialFactorTimeout.v
       /\ base_safety_factor > InitialSafetyFactor
            => last_timeout.result.v > InitialFactorTimeout.v

IsUnsolicited(line) == line.k \in UnsolicitedKinds

IsStatus(line) == line.k \in {"status", "status_bare"}

IsStatusWithPosition(line) == line.k = "status"

IsAsync(line) == line.k \in {"alarm", "msg"}

IsAnswer(line) == ~IsUnsolicited(line)

IdsOf(lines) == [k \in 1..Len(lines) |-> lines[k].id]

\* No status or async line is in the response buffer or in the lines of a
\* completed request; the buffer holds exactly the other lines read since
\* the last terminal line, and a completed request got exactly the other
\* lines read up to its terminal line, in order.
AnswersIntact ==
    /\ responses_buffer = SelectSeq(segment, IsAnswer)
    /\ \A i \in Ids : future[i].st = "result" =>
           future[i].lines = SelectSeq(completed_segment[i], IsAnswer)

\* C29 (as stated): a status line or an async line is never in a response
\* list nor in the buffer, the buffered lines are delivered intact, and
\* every status (async) line read is delivered to the status (async)
\* callback, in arrival order.
C29_ReaderClassification ==
    /\ AnswersIntact
    /\ status_delivered = IdsOf(SelectSeq(read_log, IsStatus))
    /\ async_delivered = IdsOf(SelectSeq(read_log, IsAsync))

\* C29 (amended): as above, but a status line is delivered when it decodes
\* to a report (it has an MPos or WPos field); a bracketed line that does
\* not is discarded, neither buffered nor delivered.
C29_ReaderClassificationDecoded ==
    /\ AnswersIntact
    /\ status_delivered = IdsOf(SelectSeq(read_log, IsStatusWithPosition))
    /\ async_delivered = IdsOf(SelectSeq(read_log, IsAsync))

\* A request completed with a buffered line and its terminal line, a status
\* report and a message having been read and delivered after the first of
\* them was buffered.
C29_Witness ==
    \E i \in Ids :
        /\ future[i].st = "result"
        /\ Len(future[i].lines) = 2
        /\ Len(completed_segment[i]) = 4
        /\ IsAnswer(completed_segment[i][1])
        /\ status_delivered # <<>>
        /\ async_delivered # <<>>

\* C30: a request is fulfilled at most once: no step sets an outcome on a
\* request that has one, no call raises because an outcome was already set,
\* and, once no stop() and no sweep is under way, a fulfilled request is not
\* in the table.
C30_SingleFulfilment ==
    /\ snd_res # "InvalidStateError"
    /\ (stop_pc = "idle" /\ reader_pc # "scan")
          => \A i \in pending_commands : ~done(future[i])

\* C40: the rotary distance the Movement Calculator uses lies in [0, 360],
\* for every pair of A positions, in the linear path and in the arc path.
C40_RotaryDistanceInRange ==
    (/\ last_distance.by \in {"_calculate_axis_distances",
                               "_calculate_arc_movement_time"}
     /\ last_distance.has_rotary)
    => /\ last_distance.a_distance >= 0
       /\ last_distance.a_distance <= FullTurn

\* C31: the pending table is accessed under mutual exclusion: while stop()
\* is between the start of its iteration and its clear(), or the reader is
\* inside a timeout sweep, no step of another thread changes the table.
C31_MutualExclusion ==
    [][/\ (stop_pc \in {"iter", "clear"} /\ UNCHANGED <<stop_pc, stop_pos>>)
            => UNCHANGED pending_commands
       /\ (reader_pc = "scan" /\ UNCHANGED <<reader_pc, sweep_pos>>)
            => UNCHANGED pending_commands]_vars

\* C32: request identifiers are unique and strictly increasing in the order
\* they are given out, also with several caller threads: no two calls get
\* the same identifier, and no insert replaces the entry of another request.
C32_UniqueIds ==
    /\ \A m, n \in 1..Len(issued) : m < n => issued[m] < issued[n]
    /\ \A t \in Callers :
          reg_pc[t] = "insert" => future[reg_id[t]].st = "unreg"

\* C33: while the Communicator runs, every pending request whose deadline
\* has passed is eventually removed from the table (failed with a timeout),
\* whatever the device keeps sending.
C33_SweepLiveness ==
    \A i \in Ids :
        (i \in pending_commands /\ i \in expired) ~> (i \notin pending_commands)

\* C34: at most one reader thread is alive at any time, over any sequence
\* of start() and stop() calls.
C34_OneReader == reader_pc # "dead" => extra_readers = 0

\* The rank of a stage in the order connect() is specified to follow.
StageRank(stage) ==
    CASE stage = "open" -> 1
      [] stage = "start" -> 2
      [] stage = "status" -> 3
      [] stage = "resume" -> 4
      [] stage = "requery_hold" -> 5
      [] stage = "unlock" -> 6
      [] stage = "requery_alarm" -> 7
      [] stage = "offsets" -> 8
      [] stage = "final" -> 9
      [] stage = "notify" -> 10

StagesDone == {stages[n] : n \in 1..Len(stages)}

\* C35: within a connect() call the stages happen in the order open, start,
\* status query, optional resume/unlock with re-query, work-offset query,
\* final status query, CONNECTED; CONNECTED is emitted once, after all the
\* other stages, by a connect() that returns True and never by one that
\* returns False.
C35_ConnectStages ==
    /\ \A m, n \in 1..Len(stages) :
          m < n => StageRank(stages[m]) < StageRank(stages[n])
    /\ "requery_hold" \in StagesDone => "resume" \in StagesDone
    /\ "requery_alarm" \in StagesDone => "unlock" \in StagesDone
    /\ "notify" \in StagesDone =>
          {"open", "start", "status", "offsets", "final"} \subseteq StagesDone
    /\ "notify" \in StagesDone => cn_pc = "idle"
    /\ last_op.op = "connect" =>
          (last_op.res = "True" <=> "notify" \in StagesDone)

\* A connect() that unlocked an alarm, re-queried and returned True.
C35_Witness ==
    /\ last_op.op = "connect"
    /\ last_op.res = "True"
    /\ stages = <<"open", "start", "status", "unlock", "requery_alarm",
                  "offsets", "final", "notify">>

\* A connect() that went through every stage up to the final query and
\* returned False.
C35_WitnessFailed ==
    /\ last_op.op = "connect"
    /\ last_op.res = "False"
    /\ "final" \in StagesDone

\* C37: when the parameter query of the work-offset refresh fails or times
\* out, the work offset is the zero vector afterwards.
C37_FailedRefreshZero ==
    [][(cn_pc = "offsets" /\ cn_pc' = "final" /\ last_op'.failed)
          => work_offsets' = Pos0]_vars

\* C36: when the write fails inside send_command_async, the request just
\* registered leaves the pending table and its handle is failed with the
\* transport error; no other request and no other handle is changed.
C36_FailedWrite ==
    [][(snd_pc = "write" /\ snd_pc' # "write" /\ devq' = devq)
          => /\ snd_id \notin pending_commands'
             /\ future'[snd_id].st = "transport"
             /\ snd_res' # "InvalidStateError"
             /\ pending_commands' \ {snd_id} = pending_commands \ {snd_id}
             /\ \A i \in Ids \ {snd_id} : future'[i] = future[i]]_vars

\* C38: while the Communicator is running and the transport is open the
\* reader thread is alive, whatever senders, sweeps and lines interleave.
C38_ReaderSurvives == (running /\ serial_open) => reader_pc # "dead"

\* C39: a terminal line that arrived while the pending table was empty
\* completes nothing when the reader gets to it: no handle is fulfilled
\* and no request leaves the table.
C39_OrphanTerminalDropped ==
    [][(/\ rx # <<>>
        /\ rx' = Tail(rx)
        /\ is_ok_response(Head(rx)) \/ is_error_response(Head(rx))
        /\ Head(rx).id \in orphans)
          => UNCHANGED <<future, pending_commands>>]_vars
=============================================================================
